---- MODULE Spec2Model ----
(***************************************************************************)
(* Ramp-test validator (modules/calculations/test_validator.py).           *)
(*                                                                         *)
(* Units.  The source computes in IEEE doubles; the model computes the     *)
(* same quantities in exact integer arithmetic:                            *)
(*   - weights and the fractional min/max entries of VALIDATION_CRITERIA   *)
(*     are in hundredths (0.15 is 15, 0.70 is 70);                         *)
(*   - quality_score is in tenths of a percent point (100.0 is 1000);      *)
(*   - a smoothed series is kept as window sums (window * rolling mean);   *)
(*   - monotonicity and the cadence fraction are exact ratios <<num,den>>; *)
(*   - the coefficient of variation is fixed point, 1/10000.               *)
(*   - a time sample is in half seconds (6.5 s is 13); a gap is reported   *)
(*     in whole seconds, as int() leaves it.                               *)
(* Power and cadence samples are non-negative integers; a missing sample   *)
(* (NaN) is the value NaN below.                                           *)
(***************************************************************************)
EXTENDS Integers, Sequences, FiniteSets, TLC

VARIABLES df, args, VALIDATION_CRITERIA, calls, edit, probe, threads, acc, unit

vars == <<df, args, VALIDATION_CRITERIA, calls, edit, probe, threads, acc, unit>>

(***************************************************************************)
(* Bounds of the model.                                                    *)
(***************************************************************************)
\* validate_ramp_test calls made on one table
MaxCalls == 2
\* whitespace characters put before or after a column label or a requested name
MaxPad == 1

(***************************************************************************)
(* Strings: a string is a sequence of one-character strings.               *)
(***************************************************************************)
Upper == <<"A","B","C","D","E","F","G","H","I","J","K","L","M",
           "N","O","P","Q","R","S","T","U","V","W","X","Y","Z">>
Lower == <<"a","b","c","d","e","f","g","h","i","j","k","l","m",
           "n","o","p","q","r","s","t","u","v","w","x","y","z">>
Whitespace == {" ", "\t", "\n"}

\* str.lower() on one character
LowerChar(c) ==
  IF \E k \in 1..26 : Upper[k] = c
  THEN Lower[CHOOSE k \in 1..26 : Upper[k] = c]
  ELSE c

\* str.lower()
StrLower(s) == [i \in 1..Len(s) |-> LowerChar(s[i])]

\* str.strip(): removes every leading and every trailing whitespace character
StrStrip(s) ==
  LET keep == {i \in 1..Len(s) : s[i] \notin Whitespace}
  IN IF keep = {} THEN <<>>
     ELSE LET lo == CHOOSE i \in keep : \A j \in keep : i <= j
              hi == CHOOSE i \in keep : \A j \in keep : i >= j
          IN SubSeq(s, lo, hi)

\* df.columns.str.lower().str.strip()
NormalizeLabels(labels) == [i \in 1..Len(labels) |-> StrStrip(StrLower(labels[i]))]

\* faulty variant: the presence tests see the labels stripped but not yet lower-cased
LabelsSeen_Stale(table) == [i \in 1..Len(table.labels) |-> StrStrip(table.labels[i])]

\* the labels the presence tests see: df.columns was reassigned before them
LabelsSeen(table) == NormalizeLabels(table.labels)

\* `name in df.columns`
InColumns(name, labels) == \E i \in 1..Len(labels) : labels[i] = name

\* df[name]: the data of the (first) column with that label
Column(table, name) ==
  table.cols[CHOOSE i \in 1..Len(table.labels) : table.labels[i] = name]

(***************************************************************************)
(* Numeric helpers.                                                        *)
(***************************************************************************)
\* a missing sample (numpy NaN); every real sample is >= 0
NaN == -1

Abs(v) == IF v < 0 THEN -v ELSE v

Max2(a, b) == IF a >= b THEN a ELSE b

Min2(a, b) == IF a <= b THEN a ELSE b

\* the largest element of a non-empty finite set of integers (np.max)
SetMax(S) == CHOOSE v \in S : \A u \in S : u <= v

\* running sums of x[lo..hi] on top of base: <<base+x[lo], base+x[lo]+x[lo+1], ...>>
RECURSIVE PrefixFrom(_, _, _, _)
PrefixFrom(x, lo, hi, base) ==
  IF lo > hi THEN <<>>
  ELSE IF lo = hi THEN <<base + x[lo]>>
  ELSE LET mid == (lo + hi) \div 2
           l == PrefixFrom(x, lo, mid, base)
       IN l \o PrefixFrom(x, mid + 1, hi, l[Len(l)])

\* sum of x[lo..hi] read off the running sums P of x
RangeSum(P, lo, hi) == IF lo > hi THEN 0 ELSE P[hi] - (IF lo = 1 THEN 0 ELSE P[lo - 1])

\* sum of (x[i] - q)^2 over lo..hi
RECURSIVE SumSqDev(_, _, _, _)
SumSqDev(x, lo, hi, q) ==
  IF lo > hi THEN 0
  ELSE IF lo = hi THEN (x[lo] - q) * (x[lo] - q)
  ELSE LET mid == (lo + hi) \div 2
       IN SumSqDev(x, lo, mid, q) + SumSqDev(x, mid + 1, hi, q)

\* floor of the square root of v, searched in lo..hi
RECURSIVE IsqrtIn(_, _, _)
IsqrtIn(v, lo, hi) ==
  IF lo >= hi THEN lo
  ELSE LET mid == (lo + hi + 1) \div 2
       IN IF mid * mid <= v THEN IsqrtIn(v, mid, hi) ELSE IsqrtIn(v, lo, mid - 1)

Isqrt(v) == IsqrtIn(v, 0, 46340)

(***************************************************************************)
(* pd.Series(power).rolling(window, center=True).mean().bfill().ffill()    *)
(* as window sums.  Position i (1-based) covers x[i+off-w+1 .. i+off] with *)
(* off = (w-1) \div 2; positions whose window leaves the series are NaN    *)
(* and take the first / last defined value.                                *)
(***************************************************************************)
\* faulty variant: the undefined edge positions are filled with 0 (fillna(0))
Smoothed_ZeroFill(x, w) ==
  LET n == Len(x)
      off == (w - 1) \div 2
      first == w - off
      last == n - off
      P == PrefixFrom(x, 1, n, 0)
  IN [i \in 1..n |->
        IF i < first \/ i > last THEN 0
        ELSE RangeSum(P, i + off - w + 1, i + off)] \o <<>>

Smoothed(x, w) ==
  LET n == Len(x)
      off == (w - 1) \div 2
      first == w - off
      last == n - off
      P == PrefixFrom(x, 1, n, 0)
  IN IF last < first THEN [i \in 1..n |-> NaN]
     ELSE [i \in 1..n |->
             LET c == Max2(first, Min2(last, i))
             IN RangeSum(P, c + off - w + 1, c + off)] \o <<>>

\* 2 * np.gradient(s)[i] for the 0-based index i of a series of length >= 2
Gradient2(s, i) ==
  LET n == Len(s)
  IN IF i = 0 THEN 2 * (s[2] - s[1])
     ELSE IF i = n - 1 THEN 2 * (s[n] - s[n - 1])
     ELSE s[i + 2] - s[i]

(***************************************************************************)
(* _detect_power_steps.  Indices are 0-based as in the source; a step is   *)
(* [start, end, duration, avg_power] with avg_power the exact ratio        *)
(* <<sum of power[start:end], duration>>.                                  *)
(***************************************************************************)
\* min_step_duration: int = 30
DefaultMinStepDuration == 30

\* window = min(30, len(power) // 10); if window < 5: window = 5
StepWindow(n) == Max2(5, Min2(30, n \div 10))

\* abs(gradient[i]) > step_threshold, step_threshold = 0.5; s holds window
\* sums, so gradient = Gradient2 / (2 * w)
AboveStepThreshold(s, w, i) == Abs(Gradient2(s, i)) > w

\* faulty variant: a boundary needs more than min_step_duration since the last
StepScanOnce_Strict(s, w, msd, i, st) ==
  IF AboveStepThreshold(s, w, i) /\ ~st.in_transition
  THEN [st EXCEPT !.in_transition = TRUE]
  ELSE IF ~AboveStepThreshold(s, w, i) /\ st.in_transition
  THEN IF i - st.step_starts[Len(st.step_starts)] > msd
       THEN [in_transition |-> FALSE, step_starts |-> Append(st.step_starts, i)]
       ELSE [st EXCEPT !.in_transition = FALSE]
  ELSE st

\* faulty variant: leaving a transition always registers a boundary
StepScanOnce_AnyDistance(s, w, msd, i, st) ==
  IF AboveStepThreshold(s, w, i) /\ ~st.in_transition
  THEN [st EXCEPT !.in_transition = TRUE]
  ELSE IF ~AboveStepThreshold(s, w, i) /\ st.in_transition
  THEN [in_transition |-> FALSE, step_starts |-> Append(st.step_starts, i)]
  ELSE st

\* one pass of the loop body for index i; st = [in_transition, step_starts]
StepScanOnce(s, w, msd, i, st) ==
  IF AboveStepThreshold(s, w, i) /\ ~st.in_transition
  THEN [st EXCEPT !.in_transition = TRUE]
  ELSE IF ~AboveStepThreshold(s, w, i) /\ st.in_transition
  THEN IF i - st.step_starts[Len(st.step_starts)] >= msd
       THEN [in_transition |-> FALSE, step_starts |-> Append(st.step_starts, i)]
       ELSE [st EXCEPT !.in_transition = FALSE]
  ELSE st

\* for i in range(lo, hi + 1): the loop body, in order
RECURSIVE StepScan(_, _, _, _, _, _)
StepScan(s, w, msd, lo, hi, st) ==
  IF lo > hi THEN st
  ELSE IF lo = hi THEN StepScanOnce(s, w, msd, lo, st)
  ELSE LET mid == (lo + hi) \div 2
           l == StepScan(s, w, msd, lo, mid, st)
       IN IF l.in_transition \in BOOLEAN
          THEN StepScan(s, w, msd, mid + 1, hi, l)
          ELSE l

\* the step_starts list after the scan
StepStarts(power, msd) ==
  LET n == Len(power)
      w == StepWindow(n)
      s == Smoothed(power, w)
  IN StepScan(s, w, msd, 1, n - 1,
              [in_transition |-> FALSE, step_starts |-> <<0>>]).step_starts

\* faulty variant: every segment between two boundaries becomes a step
StepsFromStarts_KeepShort(power, step_starts, msd) ==
  LET n == Len(power)
      P == PrefixFrom(power, 1, n, 0)
      End(i) == IF i + 1 <= Len(step_starts) THEN step_starts[i + 1] ELSE n
  IN [i \in 1..Len(step_starts) |->
        [start |-> step_starts[i],
         end |-> End(i),
         duration |-> End(i) - step_starts[i],
         avg_power |-> <<RangeSum(P, step_starts[i] + 1, End(i)),
                         End(i) - step_starts[i]>>]]

\* faulty variant: a step has to be longer than msd
StepsFromStarts_Longer(power, step_starts, msd) ==
  LET n == Len(power)
      P == PrefixFrom(power, 1, n, 0)
      End(i) == IF i + 1 <= Len(step_starts) THEN step_starts[i + 1] ELSE n
      keep == SelectSeq([i \in 1..Len(step_starts) |-> i],
                        LAMBDA i : End(i) - step_starts[i] > msd)
  IN [k \in 1..Len(keep) |->
        [start |-> step_starts[keep[k]],
         end |-> End(keep[k]),
         duration |-> End(keep[k]) - step_starts[keep[k]],
         avg_power |-> <<RangeSum(P, step_starts[keep[k]] + 1, End(keep[k])),
                         End(keep[k]) - step_starts[keep[k]]>>]]

\* the steps built from the boundaries, those shorter than msd dropped
StepsFromStarts(power, step_starts, msd) ==
  LET n == Len(power)
      P == PrefixFrom(power, 1, n, 0)
      End(i) == IF i + 1 <= Len(step_starts) THEN step_starts[i + 1] ELSE n
      Step(i) == [start |-> step_starts[i],
                  end |-> End(i),
                  duration |-> End(i) - step_starts[i],
                  avg_power |-> <<RangeSum(P, step_starts[i] + 1, End(i)),
                                  End(i) - step_starts[i]>>]
      RECURSIVE Build(_)
      Build(i) ==
        IF i > Len(step_starts) THEN <<>>
        ELSE IF End(i) - step_starts[i] >= msd
             THEN <<Step(i)>> \o Build(i + 1)
             ELSE Build(i + 1)
  IN Build(1)

_detect_power_steps(power, min_step_duration) ==
  IF Len(power) < min_step_duration THEN <<>>
  ELSE StepsFromStarts(power, StepStarts(power, min_step_duration), min_step_duration)

(***************************************************************************)
(* _calculate_monotonicity: the exact ratio <<increases, total>>; 0.0 is   *)
(* <<0, 1>> and 1.0 is <<1, 1>>.                                           *)
(***************************************************************************)
\* window: int = 30
DefaultMonoWindow == 30

\* faulty variant: every change counts as a transition (abs(diff) > 0)
_calculate_monotonicity_AnyChange(power, window) ==
  IF Len(power) < window THEN <<0, 1>>
  ELSE LET s == Smoothed(power, window)
           sig == {i \in 2..Len(s) : Abs(s[i] - s[i - 1]) > 0}
           total_transitions == Cardinality(sig)
           increases == Cardinality({i \in sig : s[i] - s[i - 1] > 0})
       IN IF total_transitions = 0 THEN <<1, 1>>
          ELSE <<increases, total_transitions>>

_calculate_monotonicity(power, window) ==
  IF Len(power) < window THEN <<0, 1>>
  ELSE LET s == Smoothed(power, window)
           \* abs(diff) > 1 with diff = (s[i] - s[i-1]) / window
           sig == {i \in 2..Len(s) : Abs(s[i] - s[i - 1]) > window}
           total_transitions == Cardinality(sig)
           increases == Cardinality({i \in sig : s[i] - s[i - 1] > 0})
       IN IF total_transitions = 0 THEN <<1, 1>>
          ELSE <<increases, total_transitions>>

(***************************************************************************)
(* _detect_max_gap.  time is in half seconds, the result in whole seconds. *)
(***************************************************************************)
\* expected_diff = 1.0, in half seconds
expected_diff == 2

\* int(x) for x = halves / 2: the fraction is cut off, towards zero
IntOfHalves(halves) == IF halves >= 0 THEN halves \div 2 ELSE -((-halves) \div 2)

_detect_max_gap(time) ==
  IF Len(time) < 2 THEN 0
  ELSE LET gaps == {time[i + 1] - time[i] - expected_diff : i \in 1..(Len(time) - 1)}
           max_gap == IntOfHalves(SetMax(gaps))
       IN Max2(0, max_gap)

(***************************************************************************)
(* _calculate_power_stability: mean over the steps of std / mean, in       *)
(* 1/10000.  The empty step list gives 1.0 (10000).                        *)
(***************************************************************************)
\* std_p / mean_p of power[start:end], for a slice with mean > 0
StepCV(power, P, start, end) ==
  LET m == end - start
      s1 == RangeSum(P, start + 1, end)
      q == s1 \div m
      r1 == s1 - q * m
      d2 == SumSqDev(power, start + 1, end, q)
      var10 == (10 * d2) \div m - (10 * r1 * r1) \div (m * m)
      std100 == Isqrt(1000 * Max2(0, var10))
      mean100 == 100 * q + (100 * r1) \div m
  IN (std100 * 10000) \div mean100

\* faulty variant: when no step yields a CV the result is 1.0, as for no steps
_calculate_power_stability_NoCvIsOne(power, steps) ==
  IF steps = <<>> THEN 10000
  ELSE LET P == PrefixFrom(power, 1, Len(power), 0)
           ok == {k \in 1..Len(steps) :
                    /\ steps[k].end - steps[k].start > 1
                    /\ RangeSum(P, steps[k].start + 1, steps[k].end) > 0}
           RECURSIVE SumCV(_)
           SumCV(k) ==
             IF k > Len(steps) THEN 0
             ELSE (IF k \in ok THEN StepCV(power, P, steps[k].start, steps[k].end) ELSE 0)
                  + SumCV(k + 1)
       IN IF ok = {} THEN 10000
          ELSE SumCV(1) \div Cardinality(ok)

\* faulty variant: an empty step list gives 0.0, as when no step yields a CV
_calculate_power_stability_EmptyIsZero(power, steps) ==
  IF steps = <<>> THEN 0
  ELSE LET P == PrefixFrom(power, 1, Len(power), 0)
           ok == {k \in 1..Len(steps) :
                    /\ steps[k].end - steps[k].start > 1
                    /\ RangeSum(P, steps[k].start + 1, steps[k].end) > 0}
           RECURSIVE SumCV(_)
           SumCV(k) ==
             IF k > Len(steps) THEN 0
             ELSE (IF k \in ok THEN StepCV(power, P, steps[k].start, steps[k].end) ELSE 0)
                  + SumCV(k + 1)
       IN IF ok = {} THEN 0
          ELSE SumCV(1) \div Cardinality(ok)

_calculate_power_stability(power, steps) ==
  IF steps = <<>> THEN 10000
  ELSE LET P == PrefixFrom(power, 1, Len(power), 0)
           ok == {k \in 1..Len(steps) :
                    /\ steps[k].end - steps[k].start > 1
                    /\ RangeSum(P, steps[k].start + 1, steps[k].end) > 0}
           RECURSIVE SumCV(_)
           SumCV(k) ==
             IF k > Len(steps) THEN 0
             ELSE (IF k \in ok THEN StepCV(power, P, steps[k].start, steps[k].end) ELSE 0)
                  + SumCV(k + 1)
       IN IF ok = {} THEN 0
          ELSE SumCV(1) \div Cardinality(ok)

(***************************************************************************)
(* The criteria configuration table, VALIDATION_CRITERIA at module load.   *)
(* weight, and min/max of monotonicity and power_stability, in hundredths. *)
(***************************************************************************)
CriteriaNames ==
  {"duration", "steps_count", "monotonicity", "data_gaps", "cadence", "power_stability"}

InitialCriteria ==
  [c \in CriteriaNames |->
     CASE c = "duration" ->
            [min |-> 300, max |-> 3600, weight |-> 15, description |-> "Czas trwania testu"]
       [] c = "steps_count" ->
            [min |-> 3, max |-> 20, weight |-> 20, description |-> "Liczba stopni testu"]
       [] c = "monotonicity" ->
            [min |-> 70, max |-> 100, weight |-> 25,
             description |-> "Monotonicznosc wzrostu mocy"]
       [] c = "data_gaps" ->
            [min |-> 0, max |-> 5, weight |-> 15,
             description |-> "Maksymalna przerwa w danych"]
       [] c = "cadence" ->
            [min |-> 60, max |-> 120, weight |-> 10,
             description |-> "Kadencja w dozwolonym zakresie"]
       [] c = "power_stability" ->
            [min |-> 0, max |-> 15, weight |-> 15,
             description |-> "Stabilnosc mocy na stopniu"]]

\* the weight used for a criterion the table does not hold: .get("weight", 0.1)
DefaultWeight == 10

\* faulty variant: setdefault(criterion, {}) in place of get(criterion, {})
TableAfterGet_Setdefault(table, criterion) ==
  IF criterion \in DOMAIN table THEN table ELSE (criterion :> <<>>) @@ table

\* the table after VALIDATION_CRITERIA.get(criterion, {}): get() inserts nothing
TableAfterGet(table, criterion) == table

\* VALIDATION_CRITERIA.get(criterion, {}).get("weight", 0.1)
WeightOf(table, criterion) ==
  IF criterion \in DOMAIN table /\ "weight" \in DOMAIN table[criterion]
  THEN table[criterion].weight
  ELSE DefaultWeight

\* sum of f over the finite set S
RECURSIVE SumOver(_, _)
SumOver(S, f) ==
  IF S = {} THEN 0
  ELSE LET x == CHOOSE y \in S : TRUE IN f[x] + SumOver(S \ {x}, f)

(***************************************************************************)
(* _calculate_quality_score: tenths of a percent point.  The result is the *)
(* set of values round(x, 1) can return: one value, except when the exact  *)
(* quotient lies half way between two tenths, where the rounding error of  *)
(* the double quotient decides between the two neighbours.                 *)
(***************************************************************************)
RoundTenths(num, den) ==
  LET q == num \div den
      r2 == 2 * (num - q * den)
  IN IF r2 < den THEN {q}
     ELSE IF r2 > den THEN {q + 1}
     ELSE {q, q + 1}

\* faulty variant: every criterion counts the same, the weights are not used
_calculate_quality_score_Unweighted(criteria, details, table) ==
  IF DOMAIN criteria = {} THEN {0}
  ELSE RoundTenths(1000 * Cardinality({c \in DOMAIN criteria : criteria[c]}),
                   Cardinality(DOMAIN criteria))

_calculate_quality_score(criteria, details, table) ==
  IF DOMAIN criteria = {} THEN {0}
  ELSE LET w == [c \in DOMAIN criteria |-> WeightOf(table, c)]
           total_weight == SumOver(DOMAIN criteria, w)
           weighted_score == SumOver({c \in DOMAIN criteria : criteria[c]}, w)
       IN IF total_weight = 0 THEN {0}
          ELSE RoundTenths(1000 * weighted_score, total_weight)

\* the table after _calculate_quality_score has looked every criterion up
TableAfterScore(criteria, table) ==
  LET RECURSIVE Go(_, _)
      Go(S, t) ==
        IF S = {} THEN t
        ELSE LET x == CHOOSE y \in S : TRUE IN Go(S \ {x}, TableAfterGet(t, x))
  IN Go(DOMAIN criteria, table)

\* faulty variant: the first rule looks at the score alone
StatusOf_ScoreOnly(quality_score, criteria) ==
  IF quality_score >= 800 THEN "valid"
  ELSE IF quality_score >= 500 THEN "conditional"
  ELSE "invalid"

\* faulty variant: a score of exactly 50 is invalid
StatusOf_AboveHalf(quality_score, criteria) ==
  IF quality_score >= 800 /\ \A c \in DOMAIN criteria : criteria[c]
  THEN "valid"
  ELSE IF quality_score > 500 THEN "conditional"
  ELSE "invalid"

\* the status chosen from the score and the criteria, first match
StatusOf(quality_score, criteria) ==
  IF quality_score >= 800 /\ \A c \in DOMAIN criteria : criteria[c]
  THEN "valid"
  ELSE IF quality_score >= 500 THEN "conditional"
  ELSE "invalid"

(***************************************************************************)
(* validate_ramp_test.  table = [n, labels, cols], a = the three requested *)
(* column names, cadence_column optional ([some, name]).  A message or a   *)
(* display string is [text, arg]: the fixed text and the value formatted   *)
(* into it; a number is held as a tuple, <<v>> an integer, <<num, den>> a  *)
(* ratio, <<>> None.  The result is the set of [df, resolved, report] the call can   *)
(* end with: the table as the call leaves it, the presence flags, and the  *)
(* TestValidityReport.                                                     *)
(***************************************************************************)
NoValue == <<>>

Msg(text, arg) == [text |-> text, arg |-> arg]

\* cadence_column.lower() if cadence_column else None
CadenceName(c) ==
  IF c.some /\ c.name # <<>> THEN [some |-> TRUE, name |-> StrLower(c.name)]
  ELSE [some |-> FALSE, name |-> <<>>]

\* faulty variant: a new message goes to the front (list.insert(0, ...))
Appended_InFront(list, more) == more \o list

\* list.append(...) for each message of `more`, in order
Appended(list, more) == list \o more

\* faulty variant: any number of steps from min_steps up passes
StepsCountOk_NoUpper(min_steps, steps_count, max_steps) == min_steps <= steps_count

\* min_steps <= steps_count <= max_steps
StepsCountOk(min_steps, steps_count, max_steps) ==
  min_steps <= steps_count /\ steps_count <= max_steps

\* the power branch: criteria, details and messages of steps_count,
\* monotonicity and power_stability
PowerPart(power, table) ==
  LET steps == _detect_power_steps(power, DefaultMinStepDuration)
      steps_count == Len(steps)
      min_steps == table["steps_count"].min
      max_steps == table["steps_count"].max
      monotonicity == _calculate_monotonicity(power, DefaultMonoWindow)
      min_mono == table["monotonicity"].min
      mono_ok == 100 * monotonicity[1] >= min_mono * monotonicity[2]
      power_cv == _calculate_power_stability(power, steps)
      max_cv == table["power_stability"].max
      cv_ok == power_cv <= 100 * max_cv
  IN [criteria |->
        ("steps_count" :> StepsCountOk(min_steps, steps_count, max_steps))
        @@ ("monotonicity" :> mono_ok)
        @@ ("power_stability" :> cv_ok),
      details |->
        ("steps_count" :>
           [value |-> <<steps_count>>,
            value_display |-> Msg("{} stopni", <<steps_count>>),
            expected |-> Msg("{}-{} stopni", <<min_steps, max_steps>>),
            steps |-> [k \in 1..Len(steps) |->
                         [avg_power |-> steps[k].avg_power,
                          duration |-> steps[k].duration]]])
        @@ ("monotonicity" :>
           [value |-> monotonicity,
            value_display |-> Msg("{:.0f}%", monotonicity),
            expected |-> Msg(">={:.0f}%", <<min_mono>>)])
        @@ ("power_stability" :>
           [value |-> <<power_cv>>,
            value_display |-> Msg("{:.1f}% CV", <<power_cv>>),
            expected |-> Msg("<={:.0f}%", <<max_cv>>)]),
      recommendations |->
        Appended(IF steps_count < min_steps
                 THEN <<Msg("Wykryto tylko {} stopni. Minimum: 3 dla wiarygodnej analizy.",
                            <<steps_count>>)>>
                 ELSE <<>>,
                 IF ~mono_ok
                 THEN <<Msg("Niska monotonicznosc ({:.0f}%). Test powinien miec stopniowo rosnaca moc.",
                            monotonicity)>>
                 ELSE <<>>),
      warnings |->
        IF ~cv_ok
        THEN <<Msg("Wysoka zmiennosc mocy na stopniu ({:.1f}%). Moze wplynac na dokladnosc.",
                   <<power_cv>>)>>
        ELSE <<>>]

\* faulty variant: the else branch leaves power_stability out of criteria
NoPowerPart_MissingKey ==
  [criteria |-> ("steps_count" :> FALSE) @@ ("monotonicity" :> FALSE),
   details |-> ("steps_count" :> [value |-> <<0>>, error |-> "Brak kolumny mocy"]),
   recommendations |-> <<Msg("Brak danych mocy - analiza nie bedzie mozliwa.", NoValue)>>,
   warnings |-> <<>>]

\* faulty variant: the else branch appends no recommendation
NoPowerPart_Silent ==
  [criteria |->
     ("steps_count" :> FALSE) @@ ("monotonicity" :> FALSE) @@ ("power_stability" :> FALSE),
   details |-> ("steps_count" :> [value |-> <<0>>, error |-> "Brak kolumny mocy"]),
   recommendations |-> <<>>,
   warnings |-> <<>>]

\* faulty variant: without power there is nothing unstable, power_stability
\* passes
NoPowerPart_StabilityPasses ==
  [criteria |->
     ("steps_count" :> FALSE) @@ ("monotonicity" :> FALSE) @@ ("power_stability" :> TRUE),
   details |-> ("steps_count" :> [value |-> <<0>>, error |-> "Brak kolumny mocy"]),
   recommendations |-> <<Msg("Brak danych mocy - analiza nie bedzie mozliwa.", NoValue)>>,
   warnings |-> <<>>]

\* the else branch: no power column
NoPowerPart ==
  [criteria |->
     ("steps_count" :> FALSE) @@ ("monotonicity" :> FALSE) @@ ("power_stability" :> FALSE),
   details |-> ("steps_count" :> [value |-> <<0>>, error |-> "Brak kolumny mocy"]),
   recommendations |-> <<Msg("Brak danych mocy - analiza nie bedzie mozliwa.", NoValue)>>,
   warnings |-> <<>>]

\* faulty variant: a missing time column counts as a gap
TimePart_MissingIsGap(has_time, table, norm, time_column) ==
  IF has_time
  THEN LET max_gap == _detect_max_gap(Column(norm, time_column))
           max_gap_allowed == table["data_gaps"].max
       IN [criteria |-> ("data_gaps" :> (max_gap <= max_gap_allowed)),
           details |-> ("data_gaps" :>
              [value |-> <<max_gap>>,
               value_display |-> Msg("{}s", <<max_gap>>),
               expected |-> Msg("<={}s", <<max_gap_allowed>>)]),
           warnings |->
             IF max_gap > max_gap_allowed
             THEN <<Msg("Przerwa w danych: {}s. Moze wplynac na dokladnosc.", <<max_gap>>)>>
             ELSE <<>>]
  ELSE [criteria |-> ("data_gaps" :> FALSE),
        details |-> ("data_gaps" :> [value |-> <<0>>, note |-> "Brak kolumny czasu"]),
        warnings |-> <<>>]

\* faulty variant: gaps are looked for only in a recording that has power
TimePart_OnlyWithPower(has_time, table, norm, time_column) ==
  IF has_time /\ InColumns(<<"w", "a", "t", "t", "s">>, norm.labels)
  THEN LET max_gap == _detect_max_gap(Column(norm, time_column))
           max_gap_allowed == table["data_gaps"].max
       IN [criteria |-> ("data_gaps" :> (max_gap <= max_gap_allowed)),
           details |-> ("data_gaps" :>
              [value |-> <<max_gap>>,
               value_display |-> Msg("{}s", <<max_gap>>),
               expected |-> Msg("<={}s", <<max_gap_allowed>>)]),
           warnings |->
             IF max_gap > max_gap_allowed
             THEN <<Msg("Przerwa w danych: {}s. Moze wplynac na dokladnosc.", <<max_gap>>)>>
             ELSE <<>>]
  ELSE [criteria |-> ("data_gaps" :> TRUE),
        details |-> ("data_gaps" :> [value |-> <<0>>, note |-> "Brak kolumny czasu"]),
        warnings |-> <<>>]

\* the time branch
TimePart(has_time, table, norm, time_column) ==
  IF has_time
  THEN LET max_gap == _detect_max_gap(Column(norm, time_column))
           max_gap_allowed == table["data_gaps"].max
       IN [criteria |-> ("data_gaps" :> (max_gap <= max_gap_allowed)),
           details |-> ("data_gaps" :>
              [value |-> <<max_gap>>,
               value_display |-> Msg("{}s", <<max_gap>>),
               expected |-> Msg("<={}s", <<max_gap_allowed>>)]),
           warnings |->
             IF max_gap > max_gap_allowed
             THEN <<Msg("Przerwa w danych: {}s. Moze wplynac na dokladnosc.", <<max_gap>>)>>
             ELSE <<>>]
  ELSE [criteria |-> ("data_gaps" :> TRUE),
        details |-> ("data_gaps" :> [value |-> <<0>>, note |-> "Brak kolumny czasu"]),
        warnings |-> <<>>]

\* faulty variant: the missing samples are not dropped and count as out of range
CadencePart_KeepMissing(has_cadence, table, norm, cadence_column) ==
  LET none == [criteria |-> ("cadence" :> TRUE),
               details |-> ("cadence" :> [value |-> NoValue, note |-> "Brak danych kadencji"]),
               warnings |-> <<>>]
  IN IF has_cadence
     THEN LET col == Column(norm, cadence_column)
              cadence == 1..Len(col)
          IN IF Cardinality(cadence) > 0
             THEN LET min_cad == table["cadence"].min
                      max_cad == table["cadence"].max
                      inside == Cardinality({i \in cadence :
                                               col[i] >= min_cad /\ col[i] <= max_cad})
                      cadence_in_range == <<inside, Cardinality(cadence)>>
                      ok == 10 * inside >= 8 * Cardinality(cadence)
                  IN [criteria |-> ("cadence" :> ok),
                      details |-> ("cadence" :>
                         [value |-> cadence_in_range,
                          value_display |-> Msg("{:.0f}% w zakresie", cadence_in_range),
                          expected |-> Msg("{}-{} rpm (>=80%)", <<min_cad, max_cad>>)]),
                      warnings |->
                        IF ~ok
                        THEN <<Msg("Kadencja poza optymalnym zakresem (60-120 rpm).", NoValue)>>
                        ELSE <<>>]
             ELSE none
     ELSE none

\* the cadence branch
CadencePart(has_cadence, table, norm, cadence_column) ==
  LET none == [criteria |-> ("cadence" :> TRUE),
               details |-> ("cadence" :> [value |-> NoValue, note |-> "Brak danych kadencji"]),
               warnings |-> <<>>]
  IN IF has_cadence
     THEN LET col == Column(norm, cadence_column)
              \* df[cadence_column].dropna()
              cadence == {i \in 1..Len(col) : col[i] # NaN}
          IN IF Cardinality(cadence) > 0
             THEN LET min_cad == table["cadence"].min
                      max_cad == table["cadence"].max
                      inside == Cardinality({i \in cadence :
                                               col[i] >= min_cad /\ col[i] <= max_cad})
                      cadence_in_range == <<inside, Cardinality(cadence)>>
                      ok == 10 * inside >= 8 * Cardinality(cadence)
                  IN [criteria |-> ("cadence" :> ok),
                      details |-> ("cadence" :>
                         [value |-> cadence_in_range,
                          value_display |-> Msg("{:.0f}% w zakresie", cadence_in_range),
                          expected |-> Msg("{}-{} rpm (>=80%)", <<min_cad, max_cad>>)]),
                      warnings |->
                        IF ~ok
                        THEN <<Msg("Kadencja poza optymalnym zakresem (60-120 rpm).", NoValue)>>
                        ELSE <<>>]
             ELSE none
     ELSE none

\* faulty variant: the rows with a missing sample are dropped from the
\* caller's table as well (df.dropna(inplace=True))
AssignLabels_Dropna(table, labels) ==
  LET rows == SelectSeq([r \in 1..table.n |-> r],
                        LAMBDA r : \A c \in 1..Len(table.cols) : table.cols[c][r] # NaN)
  IN [n |-> Len(rows),
      labels |-> labels,
      cols |-> [c \in 1..Len(table.cols) |-> [k \in 1..Len(rows) |-> table.cols[c][rows[k]]]]]

\* df.columns = ...: the caller's table with its labels replaced
AssignLabels(table, labels) == [table EXCEPT !.labels = labels]

\* faulty variant: the lower limit is exclusive (min_dur < duration_sec)
DurationPart_Exclusive(duration_sec, table) ==
  LET min_dur == table["duration"].min
      max_dur == table["duration"].max
  IN [criteria |-> ("duration" :> (min_dur < duration_sec /\ duration_sec <= max_dur)),
      details |-> ("duration" :>
         [value |-> <<duration_sec>>,
          value_display |-> Msg("{:.1f} min", <<duration_sec>>),
          expected |-> Msg("{:.0f}-{:.0f} min", <<min_dur, max_dur>>)]),
      recommendations |->
        IF duration_sec <= min_dur
        THEN <<Msg("Test zbyt krotki ({:.1f} min). Minimum: 5 minut.", <<duration_sec>>)>>
        ELSE <<>>,
      warnings |->
        IF duration_sec > min_dur /\ duration_sec > max_dur
        THEN <<Msg("Test bardzo dlugi ({:.1f} min). Sprawdz czy to ramp test.",
                   <<duration_sec>>)>>
        ELSE <<>>]

\* faulty variant: a recording of exactly max_dur samples is warned about
DurationPart_WarnAtMax(duration_sec, table) ==
  LET min_dur == table["duration"].min
      max_dur == table["duration"].max
  IN [criteria |-> ("duration" :> (min_dur <= duration_sec /\ duration_sec <= max_dur)),
      details |-> ("duration" :>
         [value |-> <<duration_sec>>,
          value_display |-> Msg("{:.1f} min", <<duration_sec>>),
          expected |-> Msg("{:.0f}-{:.0f} min", <<min_dur, max_dur>>)]),
      recommendations |->
        IF duration_sec < min_dur
        THEN <<Msg("Test zbyt krotki ({:.1f} min). Minimum: 5 minut.", <<duration_sec>>)>>
        ELSE <<>>,
      warnings |->
        IF duration_sec >= min_dur /\ duration_sec >= max_dur
        THEN <<Msg("Test bardzo dlugi ({:.1f} min). Sprawdz czy to ramp test.",
                   <<duration_sec>>)>>
        ELSE <<>>]

\* the duration criterion, from the sample count
DurationPart(duration_sec, table) ==
  LET min_dur == table["duration"].min
      max_dur == table["duration"].max
  IN [criteria |-> ("duration" :> (min_dur <= duration_sec /\ duration_sec <= max_dur)),
      details |-> ("duration" :>
         [value |-> <<duration_sec>>,
          value_display |-> Msg("{:.1f} min", <<duration_sec>>),
          expected |-> Msg("{:.0f}-{:.0f} min", <<min_dur, max_dur>>)]),
      recommendations |->
        IF duration_sec < min_dur
        THEN <<Msg("Test zbyt krotki ({:.1f} min). Minimum: 5 minut.", <<duration_sec>>)>>
        ELSE <<>>,
      warnings |->
        IF duration_sec >= min_dur /\ duration_sec > max_dur
        THEN <<Msg("Test bardzo dlugi ({:.1f} min). Sprawdz czy to ramp test.",
                   <<duration_sec>>)>>
        ELSE <<>>]

validate_ramp_test(table, a, vc) ==
  LET norm == AssignLabels(table, NormalizeLabels(table.labels))
      power_column == StrLower(a.power_column)
      time_column == StrLower(a.time_column)
      cadence_column == CadenceName(a.cadence_column)
      seen == LabelsSeen(table)
      has_power == InColumns(power_column, seen)
      has_time == InColumns(time_column, seen)
      has_cadence == cadence_column.some /\ InColumns(cadence_column.name, seen)
      duration_sec == norm.n
      dur == DurationPart(duration_sec, vc)
      pow == IF has_power THEN PowerPart(Column(norm, power_column), vc) ELSE NoPowerPart
      tim == TimePart(has_time, vc, norm, time_column)
      cad == CadencePart(has_cadence, vc, norm, cadence_column.name)
      criteria == cad.criteria @@ tim.criteria @@ pow.criteria @@ dur.criteria
      criteria_details == cad.details @@ tim.details @@ pow.details @@ dur.details
      recommendations == Appended(dur.recommendations, pow.recommendations)
      warnings == Appended(Appended(Appended(dur.warnings, pow.warnings), tim.warnings),
                           cad.warnings)
  IN {[df |-> norm,
       resolved |-> [has_power |-> has_power, has_time |-> has_time,
                     has_cadence |-> has_cadence],
       report |-> [status |-> StatusOf(quality_score, criteria),
                   criteria |-> criteria,
                   criteria_details |-> criteria_details,
                   quality_score |-> quality_score,
                   recommendations |-> recommendations,
                   warnings |-> warnings]] :
      quality_score \in _calculate_quality_score(criteria, criteria_details, vc)}

(***************************************************************************)
(* Inputs.  Tables are built the way the test suite builds them: a time    *)
(* column 0..n-1 (optionally with samples removed), a power staircase and  *)
(* a constant cadence.                                                     *)
(***************************************************************************)
WattsName == <<"w", "a", "t", "t", "s">>
TimeName == <<"t", "i", "m", "e">>
CadenceColName == <<"c", "a", "d", "e", "n", "c", "e">>

UpperChar(c) ==
  IF \E k \in 1..26 : Lower[k] = c
  THEN Upper[CHOOSE k \in 1..26 : Lower[k] = c]
  ELSE c

StrUpper(s) == [i \in 1..Len(s) |-> UpperChar(s[i])]

Spaces(k) == [i \in 1..k |-> " "]

\* a name in lower or upper case with up to MaxPad blanks on either side
NameVariants(s) ==
  {Spaces(l) \o c \o Spaces(r) : c \in {s, StrUpper(s)}, l \in 0..MaxPad, r \in 0..MaxPad}

\* a staircase of k plateaus over n samples rising by h per plateau from
\* base, with an alternating +amp / -amp ripple
Staircase(n, k, base, h, amp) ==
  [i \in 1..n |->
     base + h * Min2(k - 1, ((i - 1) * k) \div n)
          + (IF (i - 1) % 2 = 0 THEN amp ELSE -amp)]

\* plateaus of equal length over n samples: `up` rises by h from base, then
\* `down` falls by hd
UpDown(n, up, down, base, h, hd) ==
  [i \in 1..n |->
     LET p == ((i - 1) * (up + down + 1)) \div n
     IN base + h * Min2(p, up) - hd * Max2(0, p - up)]

PowerData(n, shape) ==
  CASE shape = "up" -> Staircase(n, Max2(1, Min2(5, n \div 40)), 100, 40, 0)
    [] shape = "flat" -> Staircase(n, 1, 100, 0, 0)
    [] shape = "down" -> Staircase(n, Max2(1, Min2(5, n \div 40)), 300, -40, 0)
    [] shape = "noisy" -> Staircase(n, Max2(1, Min2(5, n \div 40)), 100, 40, 30)
    [] shape = "zero" -> Staircase(n, 1, 0, 0, 0)
    [] shape = "up2down1" -> UpDown(n, 2, 1, 100, 40, 40)
    [] shape = "up3down1" -> UpDown(n, 3, 1, 100, 40, 40)
    [] shape = "up7down3" -> UpDown(n, 7, 3, 100, 40, 40)
    [] shape = "up2dip1" -> UpDown(n, 2, 1, 100, 40, 20)
    [] shape = "fine" -> Staircase(n, n \div 40, 100, 20, 0)

\* 0..n-1 seconds, or the same with `gap` samples removed after the first third
TimeData(n, gap) ==
  [i \in 1..n |-> expected_diff * (IF i - 1 < n \div 3 THEN i - 1 ELSE i - 1 + gap)]

CadenceData(n, rpm) == [i \in 1..n |-> rpm]

DefaultArgs ==
  [power_column |-> WattsName, time_column |-> TimeName,
   cadence_column |-> [some |-> TRUE, name |-> CadenceColName]]

\* a table with the columns named in `present`, in the order time, watts, cadence
MakeTable(n, shape, gap, rpm, present, labels) ==
  LET all == <<[role |-> "time", label |-> labels.time, data |-> TimeData(n, gap)],
               [role |-> "power", label |-> labels.power, data |-> PowerData(n, shape)],
               [role |-> "cadence", label |-> labels.cadence, data |-> CadenceData(n, rpm)]>>
      keep == SelectSeq(all, LAMBDA c : c.role \in present)
  IN [n |-> n,
      labels |-> [i \in 1..Len(keep) |-> keep[i].label],
      cols |-> [i \in 1..Len(keep) |-> keep[i].data]]

Roles == {"power", "time", "cadence"}

PlainLabels == [power |-> WattsName, time |-> TimeName, cadence |-> CadenceColName]

\* recordings of different length and quality, all columns present
DataInputs ==
  {[table |-> MakeTable(d.n, d.shape, tc.gap, tc.rpm, Roles, PlainLabels), args |-> DefaultArgs] :
     d \in {[n |-> 20, shape |-> "flat"], [n |-> 120, shape |-> "up"],
            [n |-> 120, shape |-> "flat"], [n |-> 120, shape |-> "down"],
            [n |-> 120, shape |-> "noisy"], [n |-> 299, shape |-> "up"],
            [n |-> 300, shape |-> "up"], [n |-> 300, shape |-> "flat"],
            [n |-> 300, shape |-> "down"], [n |-> 300, shape |-> "noisy"]},
     tc \in {[gap |-> 0, rpm |-> 85], [gap |-> 0, rpm |-> 50],
             [gap |-> 10, rpm |-> 85], [gap |-> 10, rpm |-> 50]}}
  \cup {[table |-> MakeTable(3601, "noisy", 10, 50, Roles, PlainLabels), args |-> DefaultArgs],
        [table |-> MakeTable(3600, "up", 0, 85, Roles, PlainLabels), args |-> DefaultArgs]}
  \cup {[table |-> MakeTable(d.n, d.shape, 0, 85, Roles, PlainLabels), args |-> DefaultArgs] :
          d \in {[n |-> 160, shape |-> "up2down1"], [n |-> 200, shape |-> "up3down1"],
                 [n |-> 440, shape |-> "up7down3"], [n |-> 160, shape |-> "up2dip1"],
                 [n |-> 840, shape |-> "fine"], [n |-> 880, shape |-> "fine"],
                 [n |-> 120, shape |-> "zero"]}}

\* every combination of present and absent columns, and the empty tables
PresenceInputs ==
  {[table |-> MakeTable(n, "up", 0, 85, present, PlainLabels), args |-> DefaultArgs] :
     n \in {0, 120}, present \in SUBSET Roles}

\* one column label and its requested name varied in case and blanks
LabelInputsOf(role) ==
  {[table |-> MakeTable(3, "up", 0, 85, Roles, [PlainLabels EXCEPT ![role] = lab]),
    args |-> IF role = "power" THEN [DefaultArgs EXCEPT !.power_column = req]
             ELSE IF role = "time" THEN [DefaultArgs EXCEPT !.time_column = req]
             ELSE [DefaultArgs EXCEPT !.cadence_column = [some |-> TRUE, name |-> req]]] :
     lab \in NameVariants(PlainLabels[role]),
     req \in NameVariants(PlainLabels[role])}

LabelInputs == UNION {LabelInputsOf(role) : role \in Roles}

\* cadence values around the limits 60 and 120, and a missing sample
CadenceSamples == {NaN, 59, 60, 120, 121}

\* five-sample tables whose cadence column holds every mix of CadenceSamples,
\* in rising and in falling order
CadenceInputs ==
  {[table |-> [MakeTable(5, "up", 0, 85, Roles, PlainLabels) EXCEPT !.cols[3] = cad],
    args |-> DefaultArgs] :
     cad \in {c \in [1..5 -> CadenceSamples] :
                \/ \A k \in 1..4 : c[k] <= c[k + 1]
                \/ \A k \in 1..4 : c[k] >= c[k + 1]}}

Inputs == DataInputs \cup PresenceInputs \cup LabelInputs \cup CadenceInputs

\* criteria mappings handed to _calculate_quality_score directly, as the
\* unit tests do: any booleans for any of the six names and an unknown one
ProbeCriteria == UNION {[K -> BOOLEAN] : K \in SUBSET (CriteriaNames \cup {"extra"})}

NoProbe == [done |-> FALSE, criteria |-> <<>>, score |-> 0]

\* no concurrent calls are being made
NoThreads == <<>>

\* no function is being called on its own
NoUnit == [fn |-> "none"]

(***************************************************************************)
(* State and actions.                                                      *)
(*   df, args             the caller's table and the requested names       *)
(*   VALIDATION_CRITERIA  the module-level configuration table             *)
(*   calls                what each validate_ramp_test call returned, with *)
(*                        the caller's edit that preceded it and the       *)
(*                        labels the table had when the call began         *)
(*   edit                 the caller's edit since the last call            *)
(*   probe                a direct call of _calculate_quality_score        *)
(*   threads, acc         two calls running side by side: each call's      *)
(*                        position and locals, and its four accumulators   *)
(*   unit                 a helper function called on its own              *)
(***************************************************************************)
Init ==
  /\ \E inp \in Inputs : df = inp.table /\ args = inp.args
  /\ VALIDATION_CRITERIA = InitialCriteria
  /\ calls = <<>>
  /\ edit = "none"
  /\ probe = NoProbe
  /\ threads = NoThreads
  /\ acc = NoThreads
  /\ unit = NoUnit

\* report = validate_ramp_test(df, power_column, time_column, cadence_column)
Validate ==
  /\ Len(calls) < MaxCalls
  /\ ~probe.done
  /\ \E out \in validate_ramp_test(df, args, VALIDATION_CRITERIA) :
       /\ df' = out.df
       /\ calls' = Append(calls, [edit |-> edit, labels |-> df.labels,
                                  resolved |-> out.resolved, report |-> out.report])
       /\ VALIDATION_CRITERIA' = TableAfterScore(out.report.criteria, VALIDATION_CRITERIA)
  /\ edit' = "none"
  /\ UNCHANGED <<args, probe, threads, acc, unit>>

\* the table without the column that holds `role`
DropColumn(table, name) ==
  LET keep == {i \in 1..Len(table.labels) : table.labels[i] # name}
      idx == [k \in 1..Cardinality(keep) |->
                CHOOSE i \in keep : Cardinality({j \in keep : j < i}) = k - 1]
  IN [n |-> table.n,
      labels |-> [k \in 1..Cardinality(keep) |-> table.labels[idx[k]]],
      cols |-> [k \in 1..Cardinality(keep) |-> table.cols[idx[k]]]]

\* the table with every sample of the column `name` missing
BlankColumn(table, name) ==
  [table EXCEPT !.cols = [i \in 1..Len(table.cols) |->
                            IF table.labels[i] = name
                            THEN [j \in 1..Len(table.cols[i]) |-> NaN]
                            ELSE table.cols[i]]]

\* the table with the samples of the column `name` in reverse order
ReverseColumn(table, name) ==
  [table EXCEPT !.cols = [i \in 1..Len(table.cols) |->
                            IF table.labels[i] = name
                            THEN [j \in 1..table.n |-> table.cols[i][table.n + 1 - j]]
                            ELSE table.cols[i]]]

Edits ==
  {"drop_power", "drop_time", "drop_cadence", "nan_cadence", "none_cadence", "change_power"}

\* between two calls the caller takes a column away, blanks the cadence
\* samples, stops naming a cadence column, or puts other power values into
\* the same rows
Edit(e) ==
  /\ Len(calls) >= 1
  /\ Len(calls) < MaxCalls
  /\ edit = "none"
  /\ \A i \in 1..Len(calls) : calls[i].edit = "none"
  /\ LET last == calls[Len(calls)].resolved
         cadence == CadenceName(args.cadence_column).name
     IN CASE e = "drop_power" ->
               /\ last.has_power
               /\ df' = DropColumn(df, StrLower(args.power_column))
               /\ args' = args
          [] e = "drop_time" ->
               /\ last.has_time
               /\ df' = DropColumn(df, StrLower(args.time_column))
               /\ args' = args
          [] e = "drop_cadence" ->
               /\ last.has_cadence
               /\ df' = DropColumn(df, cadence)
               /\ args' = args
          [] e = "nan_cadence" ->
               /\ last.has_cadence
               /\ df' = BlankColumn(df, cadence)
               /\ args' = args
          [] e = "none_cadence" ->
               /\ last.has_cadence
               /\ df' = df
               /\ args' = [args EXCEPT !.cadence_column = [some |-> FALSE, name |-> <<>>]]
          [] e = "change_power" ->
               /\ last.has_power
               /\ df' = ReverseColumn(df, StrLower(args.power_column))
               /\ args' = args
  /\ edit' = e
  /\ UNCHANGED <<VALIDATION_CRITERIA, calls, probe, threads, acc, unit>>

\* score = _calculate_quality_score(criteria, {}), with no table under test
ScoreCall ==
  /\ df.n = 0 /\ df.labels = <<>>
  /\ calls = <<>>
  /\ ~probe.done
  /\ \E c \in ProbeCriteria :
       \E sc \in _calculate_quality_score(c, <<>>, VALIDATION_CRITERIA) :
         /\ probe' = [done |-> TRUE, criteria |-> c, score |-> sc]
         /\ VALIDATION_CRITERIA' = TableAfterScore(c, VALIDATION_CRITERIA)
  /\ UNCHANGED <<df, args, calls, edit, threads, acc, unit>>

Next ==
  \/ Validate
  \/ \E e \in Edits : Edit(e)
  \/ ScoreCall

Spec == Init /\ [][Next]_vars

(***************************************************************************)
(* Two validate_ramp_test calls running side by side, each on a table of   *)
(* its own.  A call advances in the order of its source lines:             *)
(*   start     73-85   the four accumulators, the labels, the names, the   *)
(*                     presence flags                                      *)
(*   duration  87-102      power  104-152      time  154-168               *)
(*   cadence   170-190     score  192-208                                  *)
(* threads[t] holds the call's position and locals, acc the accumulators   *)
(* criteria, criteria_details, recommendations and warnings of each call.  *)
(* VALIDATION_CRITERIA is the one object both calls reach.                 *)
(***************************************************************************)
Threads == {"A", "B"}

\* faulty variant: the accumulators are one module-level set both calls use
AccumulatorsOf_Shared(t) == "A"

\* the accumulators a call appends to: its own locals (lines 73-76)
AccumulatorsOf(t) == t

\* criteria = {}, criteria_details = {}, recommendations = [], warnings = []
EmptyAcc ==
  [criteria |-> <<>>, criteria_details |-> <<>>, recommendations |-> <<>>, warnings |-> <<>>]

\* the accumulators after one branch of the call has written its part
Accumulate(a, part) ==
  [criteria |-> part.criteria @@ a.criteria,
   criteria_details |-> part.details @@ a.criteria_details,
   recommendations |->
     a.recommendations
     \o (IF "recommendations" \in DOMAIN part THEN part.recommendations ELSE <<>>),
   warnings |-> a.warnings \o part.warnings]

EmptyTable == [n |-> 0, labels |-> <<>>, cols |-> <<>>]

\* a call that has been entered with its arguments and has run no line yet
Entered(inp) ==
  [pc |-> "start", given |-> inp.table, df |-> inp.table, args |-> inp.args,
   power_column |-> <<>>, time_column |-> <<>>,
   cadence_column |-> [some |-> FALSE, name |-> <<>>],
   has_power |-> FALSE, has_time |-> FALSE, has_cadence |-> FALSE,
   report |-> <<>>]

\* recordings that end with different criteria, recommendations and warnings
ConcInputs ==
  {[table |-> MakeTable(120, "up", 10, 50, Roles, PlainLabels), args |-> DefaultArgs],
   [table |-> MakeTable(300, "up", 0, 85, Roles, PlainLabels), args |-> DefaultArgs],
   [table |-> MakeTable(300, "down", 0, 85, {"power", "cadence"}, PlainLabels),
    args |-> DefaultArgs],
   [table |-> MakeTable(40, "noisy", 0, 85, {"time"},
                        [PlainLabels EXCEPT !.time = <<" ">> \o StrUpper(TimeName)]),
    args |-> DefaultArgs]}

ConcInit ==
  /\ threads \in [Threads -> {Entered(inp) : inp \in ConcInputs}]
  /\ acc = [k \in Threads |-> EmptyAcc]
  /\ VALIDATION_CRITERIA = InitialCriteria
  /\ df = EmptyTable
  /\ args = DefaultArgs
  /\ calls = <<>>
  /\ edit = "none"
  /\ probe = NoProbe
  /\ unit = NoUnit

\* lines 73-85
Resolve(t) ==
  LET me == threads[t]
      seen == LabelsSeen(me.df)
      power_column == StrLower(me.args.power_column)
      time_column == StrLower(me.args.time_column)
      cadence_column == CadenceName(me.args.cadence_column)
  IN /\ me.pc = "start"
     /\ acc' = [acc EXCEPT ![AccumulatorsOf(t)] = EmptyAcc]
     /\ threads' = [threads EXCEPT ![t] =
          [me EXCEPT !.pc = "duration",
                     !.df = AssignLabels(me.df, NormalizeLabels(me.df.labels)),
                     !.power_column = power_column,
                     !.time_column = time_column,
                     !.cadence_column = cadence_column,
                     !.has_power = InColumns(power_column, seen),
                     !.has_time = InColumns(time_column, seen),
                     !.has_cadence = cadence_column.some
                                     /\ InColumns(cadence_column.name, seen)]]
     /\ UNCHANGED <<df, args, VALIDATION_CRITERIA, calls, edit, probe, unit>>

\* one branch of the call: its part goes to the call's accumulators
Branch(t, at, part, then) ==
  /\ threads[t].pc = at
  /\ acc' = [acc EXCEPT ![AccumulatorsOf(t)] = Accumulate(@, part)]
  /\ threads' = [threads EXCEPT ![t].pc = then]
  /\ UNCHANGED <<df, args, VALIDATION_CRITERIA, calls, edit, probe, unit>>

\* lines 87-102
MeasureDuration(t) ==
  Branch(t, "duration", DurationPart(threads[t].df.n, VALIDATION_CRITERIA), "power")

\* lines 104-152
MeasurePower(t) ==
  LET me == threads[t]
  IN Branch(t, "power",
            IF me.has_power
            THEN PowerPart(Column(me.df, me.power_column), VALIDATION_CRITERIA)
            ELSE NoPowerPart,
            "time")

\* lines 154-168
MeasureTime(t) ==
  LET me == threads[t]
  IN Branch(t, "time",
            TimePart(me.has_time, VALIDATION_CRITERIA, me.df, me.time_column),
            "cadence")

\* lines 170-190
MeasureCadence(t) ==
  LET me == threads[t]
  IN Branch(t, "cadence",
            CadencePart(me.has_cadence, VALIDATION_CRITERIA, me.df, me.cadence_column.name),
            "score")

\* lines 192-208
Return(t) ==
  LET a == acc[AccumulatorsOf(t)]
  IN /\ threads[t].pc = "score"
     /\ \E quality_score \in
             _calculate_quality_score(a.criteria, a.criteria_details, VALIDATION_CRITERIA) :
          threads' = [threads EXCEPT ![t].pc = "done",
                                     ![t].report =
                                        [status |-> StatusOf(quality_score, a.criteria),
                                         criteria |-> a.criteria,
                                         criteria_details |-> a.criteria_details,
                                         quality_score |-> quality_score,
                                         recommendations |-> a.recommendations,
                                         warnings |-> a.warnings]]
     /\ VALIDATION_CRITERIA' = TableAfterScore(a.criteria, VALIDATION_CRITERIA)
     /\ UNCHANGED <<df, args, calls, edit, probe, acc, unit>>

ConcNext ==
  \E t \in Threads :
    \/ Resolve(t)
    \/ MeasureDuration(t)
    \/ MeasurePower(t)
    \/ MeasureTime(t)
    \/ MeasureCadence(t)
    \/ Return(t)

ConcSpec == ConcInit /\ [][ConcNext]_vars

(***************************************************************************)
(* The helper functions called on their own, as the unit tests call them,  *)
(* on every short series over a few sample values.  unit holds the call:   *)
(* fn, its arguments and, once it has returned, out.  _detect_power_steps  *)
(* is followed through its scan loop, one index per step: i is the index   *)
(* the loop handles next.                                                  *)
(***************************************************************************)
\* the longest series over Samples
MaxLen == 5
\* the longest series over the two values of Plateaus
MaxScanLen == 9
\* the largest smoothing window handed to _calculate_monotonicity
MaxWindow == 4

\* watts, or half seconds: 0 s, 1 s, 6 s, 7.5 s
Samples == {0, 2, 12, 15}

\* the two power levels of the longer series
Plateaus == {0, 15}

SeriesOver(values, lo, hi) == UNION {[1..n -> values] : n \in lo..hi}

UnitSeries == SeriesOver(Samples, 0, MaxLen) \cup SeriesOver(Plateaus, MaxLen + 1, MaxScanLen)

\* min_step_duration values small enough for the short series
UnitMinStepDurations == {2, 3}

\* the configuration table after a caller has set every weight to 0
ZeroWeights == [c \in CriteriaNames |-> [InitialCriteria[c] EXCEPT !.weight = 0]]

\* tables at the edges: no rows, one row, a recording without any power,
\* recordings of 29 and of 30 samples,
\* and time columns of 0 s, 6.5 s; 0 s, 6 s; 0 s, 7 s, 1 s
UnitTables ==
  {MakeTable(0, "up", 0, 85, Roles, PlainLabels),
   MakeTable(1, "up", 0, 85, Roles, PlainLabels),
   MakeTable(40, "zero", 0, 85, Roles, PlainLabels),
   MakeTable(40, "zero", 0, 0, Roles, PlainLabels),
   MakeTable(29, "up", 0, 85, Roles, PlainLabels),
   MakeTable(30, "up", 0, 85, Roles, PlainLabels),
   [n |-> 2, labels |-> <<TimeName>>, cols |-> <<<<0, 13>>>>],
   [n |-> 2, labels |-> <<TimeName>>, cols |-> <<<<0, 12>>>>],
   [n |-> 3, labels |-> <<TimeName>>, cols |-> <<<<0, 14, 2>>>>],
   EmptyTable}

UnitInit ==
  /\ \/ /\ VALIDATION_CRITERIA = InitialCriteria
        /\ \E x \in UnitSeries : unit = [fn |-> "none", series |-> x]
     \/ /\ VALIDATION_CRITERIA = ZeroWeights
        /\ unit = [fn |-> "none", series |-> <<>>]
  /\ df = EmptyTable
  /\ args = DefaultArgs
  /\ calls = <<>>
  /\ edit = "none"
  /\ probe = NoProbe
  /\ threads = NoThreads
  /\ acc = NoThreads

UnitFrame == UNCHANGED <<df, args, VALIDATION_CRITERIA, calls, edit, probe, threads, acc>>

\* out = _calculate_monotonicity(power, window)
CallMonotonicity ==
  /\ unit.fn = "none"
  /\ \E window \in 2..MaxWindow :
       unit' = [fn |-> "monotonicity", series |-> unit.series, window |-> window,
                out |-> _calculate_monotonicity(unit.series, window)]
  /\ UnitFrame

\* out = _detect_max_gap(time)
CallMaxGap ==
  /\ unit.fn = "none"
  /\ unit' = [fn |-> "max_gap", series |-> unit.series, out |-> _detect_max_gap(unit.series)]
  /\ UnitFrame

\* _detect_power_steps(power, min_step_duration) is entered: lines 212-225
EnterSteps ==
  /\ unit.fn = "none"
  /\ \E msd \in UnitMinStepDurations :
       unit' = IF Len(unit.series) < msd
               THEN [fn |-> "steps", series |-> unit.series, min_step_duration |-> msd,
                     i |-> 0, in_transition |-> FALSE, step_starts |-> <<>>,
                     returned |-> TRUE, out |-> <<>>, power_cv |-> 10000]
               ELSE [fn |-> "steps", series |-> unit.series, min_step_duration |-> msd,
                     i |-> 1, in_transition |-> FALSE, step_starts |-> <<0>>,
                     returned |-> FALSE, out |-> <<>>, power_cv |-> 0]
  /\ UnitFrame

\* one pass of the loop at lines 226-232
ScanStep ==
  /\ unit.fn = "steps" /\ ~unit.returned
  /\ unit.i < Len(unit.series)
  /\ LET w == StepWindow(Len(unit.series))
         st == StepScanOnce(Smoothed(unit.series, w), w, unit.min_step_duration, unit.i,
                            [in_transition |-> unit.in_transition,
                             step_starts |-> unit.step_starts])
     IN unit' = [unit EXCEPT !.i = unit.i + 1,
                             !.in_transition = st.in_transition,
                             !.step_starts = st.step_starts]
  /\ UnitFrame

\* the loop is over: lines 234-249, and _calculate_power_stability on the
\* steps returned
ReturnSteps ==
  /\ unit.fn = "steps" /\ ~unit.returned
  /\ unit.i >= Len(unit.series)
  /\ LET steps == StepsFromStarts(unit.series, unit.step_starts, unit.min_step_duration)
     IN unit' = [unit EXCEPT !.returned = TRUE,
                             !.out = steps,
                             !.power_cv = _calculate_power_stability(unit.series, steps)]
  /\ UnitFrame

\* out = _calculate_quality_score(criteria, {})
CallScore ==
  /\ unit.fn = "none" /\ unit.series = <<>>
  /\ \E c \in ProbeCriteria :
       \E sc \in _calculate_quality_score(c, <<>>, VALIDATION_CRITERIA) :
         unit' = [fn |-> "score", criteria |-> c, out |-> sc]
  /\ UnitFrame

\* out = validate_ramp_test(table)
CallValidate ==
  /\ unit.fn = "none" /\ unit.series = <<>>
  /\ \E table \in UnitTables :
       \E o \in validate_ramp_test(table, DefaultArgs, VALIDATION_CRITERIA) :
         unit' = [fn |-> "validate", table |-> table, out |-> o.report]
  /\ UnitFrame

UnitNext ==
  \/ CallMonotonicity
  \/ CallMaxGap
  \/ EnterSteps
  \/ ScanStep
  \/ ReturnSteps
  \/ CallScore
  \/ CallValidate

UnitSpec == UnitInit /\ [][UnitNext]_vars

(***************************************************************************)
(* Properties.                                                             *)
(***************************************************************************)
Calls == 1..Len(calls)

\* calls that directly follow another call of the same behaviour
LaterCalls == 2..Len(calls)

TextOf(msgs) == {msgs[k].text : k \in 1..Len(msgs)}

PowerMissingText == "Brak danych mocy - analiza nie bedzie mozliwa."
GapText == "Przerwa w danych: {}s. Moze wplynac na dokladnosc."
CadenceText == "Kadencja poza optymalnym zakresem (60-120 rpm)."

\* C1: every report's criteria mapping has exactly the six fixed keys, each
\* mapped to a boolean, and its quality_score lies in [0,100], whatever
\* columns the table has (the empty table included).
C1_SixKeysAndScoreRange ==
  \A i \in Calls :
    LET r == calls[i].report
    IN /\ DOMAIN r.criteria = CriteriaNames
       /\ \A c \in CriteriaNames : r.criteria[c] \in BOOLEAN
       /\ r.quality_score >= 0 /\ r.quality_score <= 1000

\* a call on a table with no rows and no columns has returned
C1_Witness ==
  /\ Len(calls) >= 1
  /\ calls[1].labels = <<>> /\ df.n = 0
  /\ ~calls[1].resolved.has_power /\ ~calls[1].resolved.has_time
  /\ ~calls[1].resolved.has_cadence

\* the weights as the source writes them, 0.1 for a name the table lacks
WrittenWeight(c) ==
  CASE c = "duration" -> 15 [] c = "steps_count" -> 20 [] c = "monotonicity" -> 25
    [] c = "data_gaps" -> 15 [] c = "cadence" -> 10 [] c = "power_stability" -> 15
    [] OTHER -> 10

\* C2: the score is 100 * (weight passed) / (weight supplied) rounded to one
\* decimal: within half a tenth of the exact quotient; all criteria passing
\* gives 100.0, and a report with exactly one failing criterion scores 100
\* minus 100 times that criterion's weight.
C2_ScoreIsWeightedShare ==
  /\ probe.done /\ DOMAIN probe.criteria # {} =>
       LET K == DOMAIN probe.criteria
           w == [c \in K |-> WrittenWeight(c)]
           tw == SumOver(K, w)
           pw == SumOver({c \in K : probe.criteria[c]}, w)
       IN /\ 2 * Abs(probe.score * tw - 1000 * pw) <= tw
          /\ (\A c \in K : probe.criteria[c]) => probe.score = 1000
  /\ \A i \in Calls :
       LET r == calls[i].report
           failed == {c \in DOMAIN r.criteria : ~r.criteria[c]}
       IN /\ failed = {} => r.quality_score = 1000
          /\ \A c \in failed :
               failed = {c} => r.quality_score = 1000 - 10 * WrittenWeight(c)

\* the unit test's mapping, one of three criteria failed: 0.40 / 0.60 -> 66.7
C2_Witness ==
  /\ probe.done
  /\ DOMAIN probe.criteria = {"duration", "steps_count", "monotonicity"}
  /\ probe.criteria["duration"] /\ ~probe.criteria["steps_count"]
  /\ probe.criteria["monotonicity"]
  /\ probe.score = 667

\* C3: the status is one of valid, conditional, invalid, by first match:
\* valid iff score >= 80 and every criterion passed; else conditional iff
\* score >= 50; else invalid.
C3_StatusByFirstMatch ==
  \A i \in Calls :
    LET r == calls[i].report
        all == \A c \in DOMAIN r.criteria : r.criteria[c]
    IN /\ r.status \in {"valid", "conditional", "invalid"}
       /\ r.status = "valid" <=> (r.quality_score >= 800 /\ all)
       /\ r.status = "conditional" <=>
            (~(r.quality_score >= 800 /\ all) /\ r.quality_score >= 500)
       /\ r.status = "invalid" <=> r.quality_score < 500

\* a report scoring at least 80 with a failed criterion: conditional
C3_Witness ==
  \E i \in Calls :
    LET r == calls[i].report
    IN /\ r.quality_score >= 800
       /\ \E c \in DOMAIN r.criteria : ~r.criteria[c]
       /\ r.status = "conditional"

\* C4: without a power column the call still returns a report in which
\* steps_count, monotonicity and power_stability are False and the
\* power-missing recommendation is present; duration, data_gaps and cadence
\* come out as in the call on the same table with its power column.
C4_NoPowerDegrades ==
  /\ \A i \in Calls :
       ~calls[i].resolved.has_power =>
         LET r == calls[i].report
         IN /\ ~r.criteria["steps_count"]
            /\ ~r.criteria["monotonicity"]
            /\ ~r.criteria["power_stability"]
            /\ PowerMissingText \in TextOf(r.recommendations)
  /\ \A i \in LaterCalls :
       calls[i].edit = "drop_power" =>
         \A c \in {"duration", "data_gaps", "cadence"} :
           /\ calls[i].report.criteria[c] = calls[i - 1].report.criteria[c]
           /\ calls[i].report.criteria_details[c] = calls[i - 1].report.criteria_details[c]

\* the power column was taken away from a recording whose data_gaps and
\* cadence criteria fail, and the table was validated again
C4_Witness ==
  \E i \in LaterCalls :
    /\ calls[i].edit = "drop_power"
    /\ ~calls[i].resolved.has_power
    /\ ~calls[i].report.criteria["data_gaps"]
    /\ ~calls[i].report.criteria["cadence"]

\* a message list without the messages of the given text
Without(msgs, text) == SelectSeq(msgs, LAMBDA m : m.text # text)

\* C5: a missing time column makes data_gaps True, a missing cadence column
\* (absent, named None, or all values missing) makes cadence True; against
\* the call on the table that had the column, no other criterion changes, no
\* recommendation changes and no warning is added.
C5_MissingTimeOrCadence ==
  /\ \A i \in Calls :
       /\ ~calls[i].resolved.has_time => calls[i].report.criteria["data_gaps"]
       /\ ~calls[i].resolved.has_cadence => calls[i].report.criteria["cadence"]
  /\ \A i \in LaterCalls :
       LET r == calls[i].report
           p == calls[i - 1].report
       IN /\ calls[i].edit = "drop_time" =>
               /\ r.criteria["data_gaps"]
               /\ \A c \in CriteriaNames \ {"data_gaps"} : r.criteria[c] = p.criteria[c]
               /\ r.recommendations = p.recommendations
               /\ r.warnings = Without(p.warnings, GapText)
          /\ calls[i].edit \in {"drop_cadence", "nan_cadence", "none_cadence"} =>
               /\ r.criteria["cadence"]
               /\ \A c \in CriteriaNames \ {"cadence"} : r.criteria[c] = p.criteria[c]
               /\ r.recommendations = p.recommendations
               /\ r.warnings = Without(p.warnings, CadenceText)

\* the time column was taken away from a recording with a gap, and the
\* table was validated again
C5_Witness ==
  \E i \in LaterCalls :
    /\ calls[i].edit = "drop_time"
    /\ ~calls[i - 1].report.criteria["data_gaps"]
    /\ calls[i].report.criteria["data_gaps"]

\* C6: criteria_details has a record for each of the six criteria; a
\* measured criterion carries value, value_display and expected, a disabled
\* one carries note or error and no value_display.
C6_DetailsForAllSix ==
  \A i \in Calls :
    LET d == calls[i].report.criteria_details
    IN /\ DOMAIN d = CriteriaNames
       /\ \A c \in DOMAIN d :
            \/ {"value", "value_display", "expected"} \subseteq DOMAIN d[c]
            \/ /\ "value_display" \notin DOMAIN d[c]
               /\ ("note" \in DOMAIN d[c] \/ "error" \in DOMAIN d[c])

\* C7: a requested column name and a table label that differ only in case
\* or in leading / trailing whitespace, on either side, name the same
\* column: the column is reported present.
C7_NamesMatchAfterTrimAndCase ==
  \A i \in Calls :
    LET same(req) == \E k \in 1..Len(calls[i].labels) :
                       StrStrip(StrLower(calls[i].labels[k])) = StrStrip(StrLower(req))
    IN calls[i].edit = "none" /\ i = 1 =>
         /\ same(args.power_column) => calls[i].resolved.has_power
         /\ same(args.time_column) => calls[i].resolved.has_time
         /\ (args.cadence_column.some /\ same(args.cadence_column.name))
              => calls[i].resolved.has_cadence

\* C8: a second call on the same table with the same names returns the
\* same report as the first, which has already rewritten the labels.
C8_SecondCallSameReport ==
  \A i \in LaterCalls :
    calls[i].edit = "none" => calls[i].report = calls[i - 1].report

\* two calls in a row; the first found the power column under a label it
\* had to normalize
C8_Witness ==
  /\ Len(calls) >= 2
  /\ calls[2].edit = "none"
  /\ calls[1].labels # calls[2].labels
  /\ calls[1].resolved.has_power

\* C9: a report with status invalid has a non-empty recommendations list.
C9_InvalidHasRecommendation ==
  \A i \in Calls :
    calls[i].report.status = "invalid" => calls[i].report.recommendations # <<>>

\* C10: VALIDATION_CRITERIA keeps its six entries with the min, max and
\* weight it was loaded with, and the weights sum to 1.0 (100 hundredths).
C10_CriteriaTableUnchanged ==
  /\ DOMAIN VALIDATION_CRITERIA = CriteriaNames
  /\ LET t == VALIDATION_CRITERIA
         is(c, lo, hi, w) == t[c].min = lo /\ t[c].max = hi /\ t[c].weight = w
     IN /\ is("duration", 300, 3600, 15)
        /\ is("steps_count", 3, 20, 20)
        /\ is("monotonicity", 70, 100, 25)
        /\ is("data_gaps", 0, 5, 15)
        /\ is("cadence", 60, 120, 10)
        /\ is("power_stability", 0, 15, 15)
  /\ SumOver(DOMAIN VALIDATION_CRITERIA,
             [c \in DOMAIN VALIDATION_CRITERIA |-> VALIDATION_CRITERIA[c].weight]) = 100

\* the validator has run twice on one table
C10_Witness == Len(calls) >= 2 /\ calls[2].report.status = "valid"

\* the reports validate_ramp_test returns for a table when nothing else runs
AloneReports(table, a) ==
  {out.report : out \in validate_ramp_test(table, a, InitialCriteria)}

\* C11: of two calls running side by side on tables of their own, under any
\* interleaving of their steps, each returns a report it returns when run
\* alone and leaves its table as it does alone; the criteria table, the only
\* object both reach, is written by neither.
C11_ConcurrentCallsAsAlone ==
  /\ threads # NoThreads =>
       \A t \in Threads :
         threads[t].pc = "done" =>
           /\ threads[t].report \in AloneReports(threads[t].given, threads[t].args)
           /\ \A out \in validate_ramp_test(threads[t].given, threads[t].args, InitialCriteria) :
                threads[t].df = out.df
  /\ threads # NoThreads => VALIDATION_CRITERIA = InitialCriteria

\* call A has returned a report with a recommendation and a warning while
\* call B, on another table, had written part of its own and was still running
C11_Witness ==
  /\ threads # NoThreads
  /\ threads["A"].pc = "done"
  /\ threads["A"].report.recommendations # <<>>
  /\ threads["A"].report.warnings # <<>>
  /\ threads["B"].pc \in {"time", "cadence", "score"}
  /\ threads["B"].given # threads["A"].given
  /\ DOMAIN acc["B"].criteria # {}
  /\ acc["B"].recommendations = <<>>

\* a label with its case and its surrounding whitespace taken away
Bare(label) == StrStrip(StrLower(label))

\* C12: a validate_ramp_test call changes nothing in the caller's table but
\* the letter case and the surrounding whitespace of its column labels: the
\* number of rows, the number and order of the columns and every cell (the
\* missing cadence samples included) are after the call what they were before.
C12_OnlyLabelsChange ==
  [][Len(calls') > Len(calls) =>
       /\ df'.n = df.n
       /\ df'.cols = df.cols
       /\ Len(df'.labels) = Len(df.labels)
       /\ \A k \in 1..Len(df.labels) : Bare(df'.labels[k]) = Bare(df.labels[k])]_vars

\* a table whose labels the first call had to rewrite was validated again
\* after all its cadence samples had gone missing, and still holds them
C12_Witness ==
  /\ Len(calls) = 2
  /\ calls[2].edit = "nan_cadence"
  /\ calls[1].labels # df.labels
  /\ df.n > 0
  /\ \E c \in 1..Len(df.cols) : \A r \in 1..df.n : df.cols[c][r] = NaN

\* the steps of a returned step list whose mean power is above zero
LiveSteps(steps) == SelectSeq(steps, LAMBDA st : st.avg_power[1] > 0)

\* C13: the arithmetic edge cases end in the agreed values: a series of
\* length zero gives the empty step list and max gap 0; a step of mean power
\* zero is left out of the CV average, and the CV is 0.0 when every step is
\* left out; an empty criteria mapping and a total weight of zero give score
\* 0.0; and validate_ramp_test returns a full report on such tables.
C13_EdgeCasesGiveSentinels ==
  /\ (unit.fn = "max_gap" /\ Len(unit.series) < 2) => unit.out = 0
  /\ (unit.fn = "steps" /\ unit.returned) =>
       /\ Len(unit.series) = 0 => unit.out = <<>>
       /\ unit.out = <<>> => unit.power_cv = 10000
       /\ (unit.out # <<>> /\ LiveSteps(unit.out) = <<>>) => unit.power_cv = 0
       /\ LiveSteps(unit.out) # <<>> =>
            unit.power_cv = _calculate_power_stability(unit.series, LiveSteps(unit.out))
  /\ unit.fn = "score" =>
       LET K == DOMAIN unit.criteria
           total_weight == SumOver(K, [c \in K |-> WeightOf(VALIDATION_CRITERIA, c)])
       IN /\ K = {} => unit.out = 0
          /\ total_weight = 0 => unit.out = 0
          /\ unit.out >= 0 /\ unit.out <= 1000
  /\ unit.fn = "validate" =>
       LET r == unit.out
           d == r.criteria_details
           has(label) == InColumns(label, unit.table.labels)
       IN /\ DOMAIN r.criteria = CriteriaNames
          /\ \A c \in CriteriaNames : r.criteria[c] \in BOOLEAN
          /\ r.quality_score >= 0 /\ r.quality_score <= 1000
          /\ r.status \in {"valid", "conditional", "invalid"}
          /\ (unit.table.n = 0 /\ has(WattsName)) =>
               d["steps_count"].value = <<0>> /\ d["steps_count"].steps = <<>>
          /\ (unit.table.n = 0 /\ has(TimeName)) => d["data_gaps"].value = <<0>>
          /\ (unit.table.n >= DefaultMinStepDuration /\ has(WattsName)) =>
               ((\A v \in 1..unit.table.n : Column(unit.table, WattsName)[v] = 0)
                  => d["power_stability"].value = <<0>>)

\* the step list returned for a series holds a step of mean power zero and
\* a step of mean power above zero
C13_Witness ==
  /\ unit.fn = "steps" /\ unit.returned
  /\ Len(unit.out) >= 2
  /\ LiveSteps(unit.out) # <<>>
  /\ LiveSteps(unit.out) # unit.out

TooShortText == "Test zbyt krotki ({:.1f} min). Minimum: 5 minut."
VeryLongText == "Test bardzo dlugi ({:.1f} min). Sprawdz czy to ramp test."

\* how many messages of the list have the given text
CountText(msgs, text) == Len(SelectSeq(msgs, LAMBDA m : m.text = text))

\* C14: on every call the duration criterion passes iff the sample count is
\* in [300, 3600]; a count below 300 appends exactly one too-short
\* recommendation and no duration warning, a count above 3600 exactly one
\* very-long warning and no duration recommendation, a count in range
\* neither; a series of fewer than 300 samples is never valid.
C14_DurationFromSampleCount ==
  \A i \in Calls :
    LET r == calls[i].report
        duration_sec == df.n
    IN /\ r.criteria["duration"] <=> (300 <= duration_sec /\ duration_sec <= 3600)
       /\ r.criteria_details["duration"].value = <<duration_sec>>
       /\ CountText(r.recommendations, TooShortText) = (IF duration_sec < 300 THEN 1 ELSE 0)
       /\ CountText(r.warnings, VeryLongText) = (IF duration_sec > 3600 THEN 1 ELSE 0)
       /\ CountText(r.warnings, TooShortText) = 0
       /\ CountText(r.recommendations, VeryLongText) = 0
       /\ duration_sec < 300 =>
            ~r.criteria["duration"] /\ r.status \in {"conditional", "invalid"}

\* a recording of 299 samples with nothing else wrong was validated
C14_Witness ==
  \E i \in Calls :
    /\ df.n = 299
    /\ \A c \in CriteriaNames \ {"duration"} : calls[i].report.criteria[c]
    /\ calls[i].report.status = "conditional"

\* the power samples of the table the calls were made on
TablePower == Column(df, StrLower(args.power_column))

\* the table still has the power column the call found
StillHasPower(i) ==
  /\ calls[i].resolved.has_power
  /\ InColumns(StrLower(args.power_column), df.labels)
  /\ edit # "change_power"
  /\ \A j \in (i + 1)..Len(calls) : calls[j].edit # "change_power"

\* C15: with no significant transition - a flat signal, or a power series
\* shorter than the smoothing window of 30 samples, the empty one included -
\* the monotonicity scorer returns 1.0 and the monotonicity criterion passes.
C15_NoTransitionsIsMonotonic ==
  \A i \in Calls :
    StillHasPower(i) =>
      LET power == TablePower
          flat == \A k \in 1..Len(power) : power[k] = power[1]
      IN (Len(power) < DefaultMonoWindow \/ flat) =>
           /\ calls[i].report.criteria_details["monotonicity"].value = <<1, 1>>
           /\ calls[i].report.criteria["monotonicity"]

LowMonotonicityText ==
  "Niska monotonicznosc ({:.0f}%). Test powinien miec stopniowo rosnaca moc."

\* window * (smoothed[i] - smoothed[i-1]) at the 0-based index i, from the
\* samples: where both means are full windows the difference of the means
\* is the sample that enters the window less the one that leaves it, and
\* where an edge value is held it is 0
SmoothedDiff(power, window, i) ==
  LET off == (window - 1) \div 2
  IN IF i - 1 + off - window + 1 >= 0 /\ i + off <= Len(power) - 1
     THEN power[i + off + 1] - power[i + off - window + 1]
     ELSE 0

\* C16: the monotonicity scorer counts a consecutive difference of the
\* smoothed series as a significant transition only when its absolute value
\* exceeds 1 and returns (significant positive differences) / (significant
\* differences), a value in [0,1]; the criterion passes iff the value is
\* >= 0.70 and the monotonicity recommendation is appended iff it is below.
C16_MonotonicityRatio ==
  \A i \in Calls :
    StillHasPower(i) =>
      LET power == TablePower
          window == DefaultMonoWindow
          r == calls[i].report
          value == r.criteria_details["monotonicity"].value
          significant == {k \in 1..(Len(power) - 1) :
                            Abs(SmoothedDiff(power, window, k)) > window}
          positive == {k \in significant : SmoothedDiff(power, window, k) > 0}
      IN /\ (Len(power) >= window /\ significant # {}) =>
              value = <<Cardinality(positive), Cardinality(significant)>>
         /\ 0 <= value[1] /\ value[1] <= value[2]
         /\ r.criteria["monotonicity"] <=> (100 * value[1] >= 70 * value[2])
         /\ (CountText(r.recommendations, LowMonotonicityText) = 1) <=>
              (100 * value[1] < 70 * value[2])
         /\ CountText(r.recommendations, LowMonotonicityText) <= 1

\* a recording that rises seven times and falls three times scores exactly
\* 0.70 and passes
C16_Witness ==
  \E i \in Calls :
    LET value == calls[i].report.criteria_details["monotonicity"].value
    IN /\ calls[i].resolved.has_power
       /\ value[2] > value[1]
       /\ 10 * value[1] = 7 * value[2]
       /\ calls[i].report.criteria["monotonicity"]

NonDecreasing(x) == \A k \in 1..(Len(x) - 1) : x[k] <= x[k + 1]

Constant(x) == \A k \in 1..Len(x) : x[k] = x[1]

\* C17: for a power array at least as long as the smoothing window whose
\* samples never decrease the monotonicity scorer returns at least 0.9, and
\* no significant transition it counts is a decrease (holding the edge
\* values adds none); for a constant array it returns exactly 1.0.
C17_NonDecreasingIsMonotonic ==
  (unit.fn = "monotonicity" /\ Len(unit.series) >= unit.window) =>
    /\ NonDecreasing(unit.series) =>
         /\ 10 * unit.out[1] >= 9 * unit.out[2]
         /\ unit.out[1] = unit.out[2]
    /\ Constant(unit.series) => unit.out = <<1, 1>>

\* a rising series longer than the window, whose first and last smoothed
\* values are held, was scored and has several significant transitions
C17_Witness ==
  /\ unit.fn = "monotonicity"
  /\ Len(unit.series) > unit.window
  /\ NonDecreasing(unit.series) /\ ~Constant(unit.series)
  /\ unit.out[2] >= 2
  /\ unit.out[1] = unit.out[2]

\* the largest of (consecutive time difference - 1 second) over the time
\* array, in half seconds
LargestGap(time) ==
  SetMax({time[k + 1] - time[k] - expected_diff : k \in 1..(Len(time) - 1)})

\* C18: the gap detector reports the largest value of (consecutive time
\* difference minus 1 second), floored at 0, and 0 for fewer than two
\* samples; the data_gaps criterion passes iff that largest gap is at most
\* 5 seconds, and when it is exceeded a warning naming the gap is appended.
C18_LargestGapReported ==
  /\ unit.fn = "max_gap" =>
       IF Len(unit.series) < 2 THEN unit.out = 0
       ELSE expected_diff * unit.out = Max2(0, LargestGap(unit.series))
  /\ (unit.fn = "validate" /\ InColumns(TimeName, unit.table.labels) /\ unit.table.n >= 2) =>
       LET largest == Max2(0, LargestGap(Column(unit.table, TimeName)))
           r == unit.out
       IN /\ r.criteria["data_gaps"] <=> (largest <= expected_diff * 5)
          /\ (CountText(r.warnings, GapText) = 1) <=> (largest > expected_diff * 5)

\* the cadence samples of the table the last call was made on
TableCadence == Column(df, StrLower(args.cadence_column.name))

\* C19: with a cadence column that has at least one sample that is not
\* missing, the missing samples are dropped first and the cadence criterion
\* passes iff the share of the remaining samples with 60 <= cadence <= 120,
\* both limits included, is at least 0.80; the cadence warning is appended
\* iff the share is below 0.80.
C19_CadenceShareInRange ==
  \A i \in Calls :
    (i = Len(calls) /\ edit = "none" /\ calls[i].resolved.has_cadence) =>
      LET cadence == TableCadence
          kept == {k \in 1..Len(cadence) : cadence[k] # NaN}
          inside == {k \in kept : 60 <= cadence[k] /\ cadence[k] <= 120}
          r == calls[i].report
      IN kept # {} =>
           /\ r.criteria_details["cadence"].value = <<Cardinality(inside), Cardinality(kept)>>
           /\ r.criteria["cadence"] <=> (5 * Cardinality(inside) >= 4 * Cardinality(kept))
           /\ (CountText(r.warnings, CadenceText) = 1) <=>
                (5 * Cardinality(inside) < 4 * Cardinality(kept))
           /\ CountText(r.warnings, CadenceText) <= 1

\* a cadence column with missing samples whose other samples sit on the
\* limits 60 and 120 was validated and passed
C19_Witness ==
  \E i \in Calls :
    /\ i = Len(calls) /\ edit = "none" /\ calls[i].resolved.has_cadence
    /\ \E k \in 1..Len(TableCadence) : TableCadence[k] = NaN
    /\ \E k \in 1..Len(TableCadence) : TableCadence[k] = 60
    /\ \E k \in 1..Len(TableCadence) : TableCadence[k] = 120
    /\ 5 * Cardinality({k \in 1..Len(TableCadence) : TableCadence[k] # NaN}) < 4 * Len(TableCadence)
    /\ calls[i].report.criteria["cadence"]
    /\ calls[i].report.criteria_details["cadence"].value[2] < Len(TableCadence)

\* abs(gradient[i]) > 0.5 for the series the segmenter is scanning
AboveAt(series, i) ==
  LET w == StepWindow(Len(series))
  IN AboveStepThreshold(Smoothed(series, w), w, i)

\* C20: the step segmenter scans from index 1, not in transition, with
\* index 0 as the first boundary; at an index it enters transition iff
\* |gradient| > 0.5 while not in transition, leaves iff |gradient| <= 0.5
\* while in transition, and registers the index as a boundary iff it leaves
\* there at least min_step_duration after the previous boundary; a boundary
\* is registered at no other moment, and a transition still open when the
\* series ends registers nothing.
C20_ScanRegistersOnLeaving ==
  [][/\ (unit.fn = "none" /\ unit'.fn = "steps" /\ ~unit'.returned) =>
          unit'.i = 1 /\ ~unit'.in_transition /\ unit'.step_starts = <<0>>
     /\ (unit.fn = "steps" /\ ~unit.returned /\ ~unit'.returned) =>
          LET above == AboveAt(unit.series, unit.i)
              enters == above /\ ~unit.in_transition
              leaves == ~above /\ unit.in_transition
              previous == unit.step_starts[Len(unit.step_starts)]
          IN /\ unit'.i = unit.i + 1
             /\ unit'.in_transition <=> (enters \/ (unit.in_transition /\ ~leaves))
             /\ unit'.step_starts =
                  IF leaves /\ unit.i - previous >= unit.min_step_duration
                  THEN Append(unit.step_starts, unit.i)
                  ELSE unit.step_starts
     /\ (unit.fn = "steps" /\ ~unit.returned /\ unit'.returned) =>
          /\ unit.i = Len(unit.series)
          /\ unit'.step_starts = unit.step_starts
          /\ unit'.step_starts = StepStarts(unit.series, unit.min_step_duration)]_vars

\* a scan that has registered a boundary on leaving one transition is inside
\* the next one
C20_Witness ==
  /\ unit.fn = "steps" /\ ~unit.returned
  /\ Len(unit.step_starts) >= 2
  /\ unit.in_transition
  /\ unit.i < Len(unit.series)

\* the sum of x[lo..hi], sample by sample
RECURSIVE RawSum(_, _, _)
RawSum(x, lo, hi) == IF lo > hi THEN 0 ELSE x[lo] + RawSum(x, lo + 1, hi)

\* a call of _detect_power_steps that has returned
StepsReturned == unit.fn = "steps" /\ unit.returned

\* C21: the steps _detect_power_steps returns are in order of their start;
\* each has 0 <= start < end <= len(power), duration = end - start >=
\* min_step_duration and avg_power the mean of the raw samples power[start:end];
\* a series shorter than min_step_duration gives the empty list
C21_StepsWellFormed ==
  StepsReturned =>
    LET n == Len(unit.series)
        msd == unit.min_step_duration
        out == unit.out
    IN /\ n < msd => out = <<>>
       /\ \A k \in 1..Len(out) :
            /\ 0 <= out[k].start /\ out[k].start < out[k].end /\ out[k].end <= n
            /\ out[k].duration = out[k].end - out[k].start
            /\ out[k].duration >= msd
            /\ out[k].avg_power = <<RawSum(unit.series, out[k].start + 1, out[k].end),
                                    out[k].duration>>
       /\ \A k \in 1..(Len(out) - 1) : out[k].start < out[k + 1].start

\* two steps returned, one of them with power in it, after a segment too short
\* to be a step was left out
C21_Witness ==
  /\ StepsReturned
  /\ Len(unit.out) >= 2
  /\ Len(unit.out) < Len(unit.step_starts)
  /\ \E k \in 1..Len(unit.out) : unit.out[k].avg_power[1] > 0

\* the number of steps a report gives
StepsCounted(r) == r.criteria_details["steps_count"].value[1]

TooFewStepsText == "Wykryto tylko {} stopni. Minimum: 3 dla wiarygodnej analizy."

\* C22: when the power column is present, steps_count passes exactly when the
\* number of detected steps is between 3 and 20; the "minimum 3" recommendation
\* is appended exactly when the number is below 3 and carries that number; with
\* more than 20 steps the criterion fails and the call appends no
\* recommendation and no warning for it
C22_StepsCountRange ==
  \A i \in Calls :
    calls[i].resolved.has_power =>
      LET r == calls[i].report
          c == StepsCounted(r)
      IN /\ c = Len(r.criteria_details["steps_count"].steps)
         /\ r.criteria["steps_count"] <=> (3 <= c /\ c <= 20)
         /\ CountText(r.recommendations, TooFewStepsText) = (IF c < 3 THEN 1 ELSE 0)
         /\ \A k \in 1..Len(r.recommendations) :
              r.recommendations[k].text = TooFewStepsText => r.recommendations[k].arg = <<c>>
         /\ CountText(r.warnings, TooFewStepsText) = 0
         /\ (c > 20 /\ \A n \in CriteriaNames \ {"steps_count"} : r.criteria[n])
              => r.recommendations = <<>> /\ r.warnings = <<>>

\* a recording with more than 20 steps: steps_count is the one criterion
\* that fails and both message lists are empty
C22_Witness ==
  \E i \in Calls :
    /\ calls[i].resolved.has_power
    /\ StepsCounted(calls[i].report) > 20
    /\ ~calls[i].report.criteria["steps_count"]
    /\ calls[i].report.recommendations = <<>>
    /\ calls[i].report.warnings = <<>>

VariabilityText == "Wysoka zmiennosc mocy na stopniu ({:.1f}%). Moze wplynac na dokladnosc."

\* the power_stability value a report gives, in 1/10000
StabilityValue(r) == r.criteria_details["power_stability"].value[1]

\* std / mean of x[lo..hi] in 1/10000, from the sums of the samples:
\* with q the whole part of the mean, m^2 * variance is
\* m * sum((x - q)^2) - (sum(x - q))^2, and std / mean is its root over sum(x)
DirectCV(x, lo, hi) ==
  LET m == hi - lo + 1
      s1 == PrefixFrom(x, lo, hi, 0)[m]
      q == s1 \div m
      r1 == s1 - q * m
  IN (Isqrt(m * SumSqDev(x, lo, hi, q) - r1 * r1) * 10000) \div s1

\* the steps of a report with the start each has when the steps follow one
\* another from sample 0
RECURSIVE StartsOf(_, _)
StartsOf(steps, from) ==
  IF steps = <<>> THEN <<>>
  ELSE <<from>> \o StartsOf(Tail(steps), from + steps[1].duration)

\* C23: the stability value is 1.0 for an empty step list, 0.0 when there
\* are steps but none has more than one sample and a mean above zero, and
\* otherwise the mean of std / mean over the steps that have (to 0.0005, the
\* precision of the fixed-point arithmetic); the criterion
\* passes exactly when the value is at most 0.15, a larger value appends one
\* warning and never a recommendation, and a report with no steps fails the
\* criterion
C23_StabilityValueAndCriterion ==
  \A i \in Calls :
    calls[i].resolved.has_power =>
      LET r == calls[i].report
          v == StabilityValue(r)
          steps == r.criteria_details["steps_count"].steps
          live == {k \in 1..Len(steps) : steps[k].duration > 1 /\ steps[k].avg_power[1] > 0}
          starts == StartsOf(steps, 0)
      IN /\ steps = <<>> => (v = 10000 /\ ~r.criteria["power_stability"])
         /\ (steps # <<>> /\ live = {}) => v = 0
         /\ (live # {} /\ i = Len(calls) /\ edit = "none") =>
              LET total == SumOver(live, [k \in live |->
                                     DirectCV(TablePower, starts[k] + 1,
                                              starts[k] + steps[k].duration)])
              IN Abs(v * Cardinality(live) - total) <= 5 * Cardinality(live)
         /\ r.criteria["power_stability"] <=> (v <= 1500)
         /\ CountText(r.warnings, VariabilityText) = (IF v > 1500 THEN 1 ELSE 0)
         /\ \A k \in 1..Len(r.warnings) :
              r.warnings[k].text = VariabilityText => r.warnings[k].arg = <<v>>
         /\ CountText(r.recommendations, VariabilityText) = 0

\* a recording whose steps are too unsteady, one whose steps are all at zero
\* watts, and one too short for any step: the last call is of the first kind
C23_Witness ==
  \E i \in Calls :
    /\ calls[i].resolved.has_power
    /\ i = Len(calls) /\ edit = "none"
    /\ Len(calls[i].report.criteria_details["steps_count"].steps) >= 2
    /\ StabilityValue(calls[i].report) > 1500
    /\ CountText(calls[i].report.warnings, VariabilityText) = 1

\* the criteria a message speaks of
CriteriaOf(text) ==
  CASE text = TooShortText -> {"duration"}
    [] text = VeryLongText -> {"duration"}
    [] text = TooFewStepsText -> {"steps_count"}
    [] text = LowMonotonicityText -> {"monotonicity"}
    [] text = PowerMissingText -> {"steps_count", "monotonicity", "power_stability"}
    [] text = VariabilityText -> {"power_stability"}
    [] text = GapText -> {"data_gaps"}
    [] text = CadenceText -> {"cadence"}
    [] OTHER -> {"none"}

\* C24: every recommendation and every warning of a report is one of the
\* eight known messages and speaks of a criterion that is False in that
\* report; a report whose six criteria all pass has no recommendation and no
\* warning
C24_MessagesMeanFailedCriteria ==
  \A i \in Calls :
    LET r == calls[i].report
        Failed(m) == \A c \in CriteriaOf(m.text) : c \in DOMAIN r.criteria /\ ~r.criteria[c]
    IN /\ \A k \in 1..Len(r.recommendations) : Failed(r.recommendations[k])
       /\ \A k \in 1..Len(r.warnings) : Failed(r.warnings[k])
       /\ (\A c \in DOMAIN r.criteria : r.criteria[c])
            => r.recommendations = <<>> /\ r.warnings = <<>>

\* a report with a recommendation and three warnings, each about a failed
\* criterion, while another criterion of the report passes
C24_Witness ==
  \E i \in Calls :
    /\ Len(calls[i].report.recommendations) >= 1
    /\ Len(calls[i].report.warnings) >= 3
    /\ \E c \in CriteriaNames : calls[i].report.criteria[c]

\* the weights of the failed criteria of a report, in hundredths
FailedWeight(r) ==
  LET failed == {c \in DOMAIN r.criteria : ~r.criteria[c]}
  IN SumOver(failed, [c \in failed |-> InitialCriteria[c].weight])

\* C25: with the weight table as loaded, a report is valid exactly when all
\* six criteria pass, invalid exactly when the weights of its failed criteria
\* total more than 0.50, and conditional in every other case; the score is
\* 100 less the failed weight, so the score >= 80 half of the first rule
\* never decides
C25_StatusFromFailedWeight ==
  \A i \in Calls :
    LET r == calls[i].report
        all == \A c \in DOMAIN r.criteria : r.criteria[c]
    IN /\ r.quality_score = 10 * (100 - FailedWeight(r))
       /\ all => r.quality_score >= 800
       /\ r.status = "valid" <=> all
       /\ r.status = "invalid" <=> FailedWeight(r) > 50
       /\ r.status = "conditional" <=> (~all /\ FailedWeight(r) <= 50)

\* a report whose failed criteria weigh exactly 0.50: conditional
C25_Witness ==
  \E i \in Calls :
    /\ FailedWeight(calls[i].report) = 50
    /\ calls[i].report.status = "conditional"

\* C26: a call that finds no power column returns a score of at most 40.0
\* and the status invalid, whatever the duration, time and cadence are
C26_NoPowerIsInvalid ==
  \A i \in Calls :
    ~calls[i].resolved.has_power =>
      /\ calls[i].report.quality_score <= 400
      /\ calls[i].report.status = "invalid"

\* a table without power whose duration, time and cadence all pass: the
\* score is exactly 40.0
C26_Witness ==
  \E i \in Calls :
    /\ ~calls[i].resolved.has_power
    /\ calls[i].resolved.has_time /\ calls[i].resolved.has_cadence
    /\ calls[i].report.criteria["duration"]
    /\ calls[i].report.criteria["data_gaps"]
    /\ calls[i].report.criteria["cadence"]
    /\ calls[i].report.quality_score = 400

\* C27: for a series of at least min_step_duration samples
\* _detect_power_steps returns a non-empty list whose first step starts at
\* sample 0; so inside validate_ramp_test, where min_step_duration is 30, the
\* step list is empty, and the stability value is the 1.0 of an empty list,
\* only for a recording of fewer than 30 samples
C27_LongEnoughGivesSteps ==
  /\ StepsReturned =>
       /\ Len(unit.series) >= unit.min_step_duration =>
            (unit.out # <<>> /\ unit.out[1].start = 0)
       /\ unit.out = <<>> <=> Len(unit.series) < unit.min_step_duration
  /\ (unit.fn = "validate" /\ InColumns(WattsName, unit.table.labels)) =>
       LET d == unit.out.criteria_details
       IN /\ d["steps_count"].steps = <<>> <=> unit.table.n < DefaultMinStepDuration
          /\ d["steps_count"].steps = <<>> => d["power_stability"].value = <<10000>>
          /\ unit.table.n >= DefaultMinStepDuration => d["steps_count"].value[1] >= 1

\* a series of exactly min_step_duration samples, with a change of level
\* in it, comes back as one step from sample 0
C27_Witness ==
  /\ StepsReturned
  /\ Len(unit.series) = unit.min_step_duration
  /\ \E k \in 1..Len(unit.series) : unit.series[k] # unit.series[1]
  /\ Len(unit.out) = 1
  /\ unit.out[1].start = 0

\* C28: the returned steps follow one another without gap or overlap from
\* sample 0; the registered boundaries increase and lie at least
\* min_step_duration apart; the only segment ever left out is the last one,
\* when it is shorter than min_step_duration; and there are at most
\* floor(len(power) / min_step_duration) steps
C28_StepsContiguous ==
  StepsReturned =>
    LET n == Len(unit.series)
        msd == unit.min_step_duration
        out == unit.out
        b == unit.step_starts
    IN /\ \A k \in 1..(Len(b) - 1) : b[k + 1] - b[k] >= msd
       /\ \A k \in 1..(Len(out) - 1) : out[k + 1].start = out[k].end
       /\ \A k \in 1..Len(out) : out[k].start = b[k]
       /\ Len(out) = Len(b) \/ Len(out) = Len(b) - 1
       /\ (out # <<>> /\ Len(out) = Len(b)) => out[Len(out)].end = n
       /\ (b # <<>> /\ Len(out) = Len(b) - 1) => n - b[Len(b)] < msd
       /\ Len(out) * msd <= n

\* three boundaries were registered and the segment after the last one was
\* too short to become a step
C28_Witness ==
  /\ StepsReturned
  /\ Len(unit.step_starts) = 3
  /\ Len(unit.out) = 2
  /\ unit.out[2].end < Len(unit.series)

\* the place of a recommendation in the order of the source; the two
\* branches on the power column share the place after the duration
RecommendationRank(text) ==
  CASE text = TooShortText -> 1
    [] text = TooFewStepsText -> 2
    [] text = PowerMissingText -> 2
    [] text = LowMonotonicityText -> 3
    [] OTHER -> 0

\* the place of a warning in the order of the source
WarningRank(text) ==
  CASE text = VeryLongText -> 1
    [] text = VariabilityText -> 2
    [] text = GapText -> 3
    [] text = CadenceText -> 4
    [] OTHER -> 0

\* C29: in every report the recommendations stand in the order too-short,
\* then too-few-steps and low-monotonicity or else power-missing, the
\* warnings in the order very-long, power-variability, data-gap,
\* cadence-out-of-range, each message at most once; power-missing never
\* stands with a steps, monotonicity or power-variability message
C29_MessagesInSourceOrder ==
  \A i \in Calls :
    LET recs == calls[i].report.recommendations
        warns == calls[i].report.warnings
    IN /\ \A k \in 1..Len(recs) : RecommendationRank(recs[k].text) > 0
       /\ \A k \in 1..(Len(recs) - 1) :
            RecommendationRank(recs[k].text) < RecommendationRank(recs[k + 1].text)
       /\ \A k \in 1..Len(warns) : WarningRank(warns[k].text) > 0
       /\ \A k \in 1..(Len(warns) - 1) :
            WarningRank(warns[k].text) < WarningRank(warns[k + 1].text)
       /\ PowerMissingText \in TextOf(recs) =>
            /\ TooFewStepsText \notin TextOf(recs)
            /\ LowMonotonicityText \notin TextOf(recs)
            /\ VariabilityText \notin TextOf(warns)

\* a report with the three recommendations of a short, stepless recording
\* and three warnings
C29_Witness ==
  \E i \in Calls :
    /\ Len(calls[i].report.recommendations) = 3
    /\ Len(calls[i].report.warnings) = 3

\* the messages of a list that speak of duration, gaps or cadence
NotAboutPower(msgs) ==
  SelectSeq(msgs, LAMBDA m : m.text \in {TooShortText, VeryLongText, GapText, CadenceText})

\* C30: the duration, data_gaps and cadence results do not depend on the
\* power: of two calls on tables with the same rows, time column and
\* cadence column, the second with other power values or with no power
\* column at all, both give the same three criteria, the same details for
\* them and the same duration, gap and cadence messages
C30_PowerDoesNotReachOthers ==
  \A i \in LaterCalls :
    calls[i].edit \in {"change_power", "drop_power"} =>
      LET r == calls[i].report
          q == calls[i - 1].report
      IN /\ \A c \in {"duration", "data_gaps", "cadence"} :
              /\ r.criteria[c] = q.criteria[c]
              /\ r.criteria_details[c] = q.criteria_details[c]
         /\ NotAboutPower(r.recommendations) = NotAboutPower(q.recommendations)
         /\ NotAboutPower(r.warnings) = NotAboutPower(q.warnings)

\* a recording with a gap and a low cadence is validated, ridden the other
\* way round and validated again: the power criteria change, the gap and
\* cadence warnings stay
C30_Witness ==
  \E i \in LaterCalls :
    /\ calls[i].edit = "change_power"
    /\ calls[i].report.criteria["monotonicity"] # calls[i - 1].report.criteria["monotonicity"]
    /\ Len(NotAboutPower(calls[i].report.warnings)) >= 2

====
